---- MODULE Spec2Model ----
(***************************************************************************)
(* Memory retrieval and adaptive weighting engine of the NOYCE dialogue    *)
(* agents (YutongCode/new_adaptive_agent.py, AdaptiveDialogueAgent.py).    *)
(*                                                                         *)
(* Components modelled:                                                    *)
(*   SearchWeights.adjust            (SpecWeights)                         *)
(*   MemoryGraphManager locator      (SpecLocator)                         *)
(*   MemoryGraphManager builder      (SpecGraph)                           *)
(*   ReflectiveMemoryAgent scorer    (SpecScore)                           *)
(*   agent construction from files   (SpecLoad)                            *)
(*   ReflectiveMemoryAgent query     (SpecQuery)                           *)
(*                                                                         *)
(* Python floats are modelled as exact rationals [num, den] in lowest      *)
(* terms; strings are sequences of one-character strings.                  *)
(***************************************************************************)
EXTENDS Integers, Sequences, FiniteSets, TLC

VARIABLES
    weights,        \* SearchWeights instance of the agent
    lastAdjust,     \* the last adjust call: its argument and the weights before it
    nAdjust,        \* number of adjust calls made so far
    routine_data,   \* MemoryGraphManager.routine_data['activities']
    story_data,     \* MemoryGraphManager.story_data
    memory_network, \* MemoryGraphManager.memory_network (None before construction)
    located,        \* the last Activity Locator call: its argument and result
    content,        \* scorer input: the node content (a dict)
    keywords,       \* scorer input: category -> list of terms
    score,          \* result of the last _calculate_relevance call
    files,          \* the patient's three record files: status and parsed content
    profile,        \* MemoryGraphManager.profile
    agent,          \* outcome of the agent constructor (None before the call)
    pc,             \* position of the running process_query call
    frame,          \* local variables of the running process_query call
    search_history, \* ReflectiveMemoryAgent.search_history
    response,       \* outcome of the last process_query call: returned or raised
    nQueries        \* number of process_query calls started so far

vars == <<weights, lastAdjust, nAdjust, routine_data, story_data,
          memory_network, located, content, keywords, score,
          files, profile, agent, pc, frame, search_history, response, nQueries>>

\* Python's None (a record, so that it compares with any result record)
None == [none |-> TRUE]

----------------------------------------------------------------------------
(* Exact rational arithmetic standing for Python float arithmetic.         *)

RECURSIVE GCD(_, _)
GCD(a, b) == IF b = 0 THEN a ELSE GCD(b, a % b)

Rat(n, d) == LET g == GCD(n, d) IN [num |-> n \div g, den |-> d \div g]

RatAdd(x, y) ==
    LET g == GCD(x.den, y.den)
    IN  Rat(x.num * (y.den \div g) + y.num * (x.den \div g),
            (x.den \div g) * y.den)

\* x / y, with y > 0; common factors are cancelled before multiplying
RatDiv(x, y) ==
    LET g1 == GCD(x.num, y.num)
        g2 == GCD(x.den, y.den)
    IN  Rat((x.num \div g1) * (y.den \div g2),
            (x.den \div g2) * (y.num \div g1))

\* a/b < c/d, by comparing integer parts and then the reciprocals of the
\* fractional parts, so that no product is formed
RECURSIVE FracLess(_, _, _, _)
FracLess(a, b, c, d) ==
    IF a \div b # c \div d THEN a \div b < c \div d
    ELSE IF a % b = 0 THEN c % d # 0
    ELSE IF c % d = 0 THEN FALSE
    ELSE FracLess(d, c % d, b, a % b)

RatLess(x, y) == FracLess(x.num, x.den, y.num, y.den)

RatLeq(x, y) == x = y \/ RatLess(x, y)

RatMin(x, y) == IF RatLeq(x, y) THEN x ELSE y

One == Rat(1, 1)

----------------------------------------------------------------------------
(* SearchWeights (new_adaptive_agent.py)                                   *)

\* dataclass defaults
DefaultWeights ==
    [routine_weight |-> Rat(1, 2), story_weight |-> Rat(1, 2),
     min_weight |-> Rat(1, 5), max_weight |-> Rat(4, 5)]

\* the literal 0.1 added to the favoured weight
AdjustStep == Rat(1, 10)

\* values the evaluator's focus_recommendation can take; the prompt asks for
\* routine/memory/balanced, the others are values it was not asked for
FocusRecommendations == {"routine", "memory", "story", "balanced", "both"}

\* adjust with the elif turned into an else: every other value favours story
adjustSteppedElse(w, focus) ==
    IF focus = "routine"
    THEN [w EXCEPT !.routine_weight =
              RatMin(w.max_weight, RatAdd(w.routine_weight, AdjustStep))]
    ELSE [w EXCEPT !.story_weight =
              RatMin(w.max_weight, RatAdd(w.story_weight, AdjustStep))]

\* adjust with the two branches stepping the other weight
adjustSteppedSwapped(w, focus) ==
    IF focus = "routine"
    THEN [w EXCEPT !.story_weight =
              RatMin(w.max_weight, RatAdd(w.story_weight, AdjustStep))]
    ELSE IF focus = "memory"
    THEN [w EXCEPT !.routine_weight =
              RatMin(w.max_weight, RatAdd(w.routine_weight, AdjustStep))]
    ELSE w

\* the branch of adjust: which weight is stepped
adjustStepped(w, focus) ==
    IF focus = "routine"
    THEN [w EXCEPT !.routine_weight =
              RatMin(w.max_weight, RatAdd(w.routine_weight, AdjustStep))]
    ELSE IF focus = "memory"
    THEN [w EXCEPT !.story_weight =
              RatMin(w.max_weight, RatAdd(w.story_weight, AdjustStep))]
    ELSE w

\* adjust without the division by the total
adjustNormalizeSkipped(w) == w

\* the renormalisation that ends adjust
adjustNormalize(w) ==
    LET total == RatAdd(w.routine_weight, w.story_weight)
    IN  [w EXCEPT !.routine_weight = RatDiv(w.routine_weight, total),
                  !.story_weight = RatDiv(w.story_weight, total)]

adjust(w, effectiveness) ==
    adjustNormalize(adjustStepped(w, effectiveness.focus_recommendation))

\* bound on the number of adjust calls in one session
MaxAdjust == 7


Adjust ==
    /\ nAdjust < MaxAdjust
    /\ \E f \in FocusRecommendations :
          /\ weights' = adjust(weights, [focus_recommendation |-> f])
          /\ lastAdjust' = [focus |-> f, before |-> weights]
    /\ nAdjust' = nAdjust + 1

InBand(w, x) == RatLeq(w.min_weight, x) /\ RatLeq(x, w.max_weight)

\* C1: from the default weights, after any sequence of adjust calls the two
\* weights sum to 1 and each lies within [min_weight, max_weight].
WeightsNormalizedInBand ==
    /\ RatAdd(weights.routine_weight, weights.story_weight) = One
    /\ InBand(weights, weights.routine_weight)
    /\ InBand(weights, weights.story_weight)

\* an adjust call in which the cap at max_weight cut the step short
CapAppliedWitness ==
    /\ lastAdjust # None
    /\ lastAdjust.focus = "routine"
    /\ RatLess(lastAdjust.before.max_weight,
               RatAdd(lastAdjust.before.routine_weight, AdjustStep))
    /\ weights # lastAdjust.before

\* C2: adjust with "balanced", or any recommendation other than routine,
\* memory and story, leaves both weights as they were.
BalancedLeavesWeights ==
    (lastAdjust # None /\ lastAdjust.focus \notin {"routine", "memory", "story"})
        => weights = lastAdjust.before

\* a balanced call made on weights that earlier calls had moved
BalancedAfterShiftWitness ==
    /\ lastAdjust # None
    /\ lastAdjust.focus = "balanced"
    /\ lastAdjust.before.routine_weight # DefaultWeights.routine_weight
    /\ weights = lastAdjust.before

\* the favoured weight x (the other being y) was stepped by 0.1, capped at
\* max_weight, renormalised, and did not drop; it rose if it was below the cap
Raised(before, x, y, after) ==
    LET stepped == RatMin(before.max_weight, RatAdd(x, AdjustStep))
    IN  /\ after = RatDiv(stepped, RatAdd(stepped, y))
        /\ RatLeq(x, after)
        /\ RatLess(x, before.max_weight) => RatLess(x, after)

RoutineRaised ==
    Raised(lastAdjust.before, lastAdjust.before.routine_weight,
           lastAdjust.before.story_weight, weights.routine_weight)

StoryRaised ==
    Raised(lastAdjust.before, lastAdjust.before.story_weight,
           lastAdjust.before.routine_weight, weights.story_weight)

\* C3 as stated: "routine" raises routine_weight, and "memory" or "story"
\* raises story_weight, by the capped step before renormalising.
FavouredRaisedMemoryOrStory ==
    lastAdjust # None =>
        /\ lastAdjust.focus = "routine" => RoutineRaised
        /\ lastAdjust.focus \in {"memory", "story"} => StoryRaised

\* C3 (amended): "routine" raises routine_weight and "memory" raises
\* story_weight by the step 0.1 capped at max_weight before renormalising;
\* the favoured weight never drops and rises when it was below max_weight.
\* The recommendation "story" is not recognised: it changes neither weight.
FavouredRaised ==
    lastAdjust # None =>
        /\ lastAdjust.focus = "routine" => RoutineRaised
        /\ lastAdjust.focus = "memory" => StoryRaised
        /\ lastAdjust.focus = "story" => weights = lastAdjust.before

\* a "memory" call that raised story_weight after routine had been favoured
MemoryRaisedWitness ==
    /\ lastAdjust # None
    /\ lastAdjust.focus = "memory"
    /\ RatLess(lastAdjust.before.story_weight, lastAdjust.before.routine_weight)
    /\ RatLess(lastAdjust.before.story_weight, weights.story_weight)

----------------------------------------------------------------------------
(* Strings: sequences of one-character strings, compared as Python does.   *)

Digits == <<"0", "1", "2", "3", "4", "5", "6", "7", "8", "9">>

\* code point order of the characters that occur in time strings
Ord(c) == IF c = ":" THEN 58
          ELSE 48 + (CHOOSE d \in 0..9 : Digits[d + 1] = c)

\* a comparison that looks at the two hour digits only
StrLeqHoursOnly(a, b) ==
    Ord(a[1]) * 10 + Ord(a[2]) <= Ord(b[1]) * 10 + Ord(b[2])

\* Python's str <= str: lexicographic by code point, a prefix sorts first
RECURSIVE StrLeq(_, _)
StrLeq(a, b) ==
    IF a = <<>> THEN TRUE
    ELSE IF b = <<>> THEN FALSE
    ELSE IF Ord(Head(a)) < Ord(Head(b)) THEN TRUE
    ELSE IF Ord(Head(a)) > Ord(Head(b)) THEN FALSE
    ELSE StrLeq(Tail(a), Tail(b))

\* datetime.strftime("%H:%M"): two-digit hour, colon, two-digit minute
strftime(t) ==
    <<Digits[(t.hour \div 10) + 1], Digits[(t.hour % 10) + 1], ":",
      Digits[(t.minute \div 10) + 1], Digits[(t.minute % 10) + 1]>>

\* minutes since midnight of an "HH:MM" string (int(split(':')[0]) * 60 + ...)
MinutesOf(str) ==
    ((Ord(str[1]) - 48) * 10 + (Ord(str[2]) - 48)) * 60
        + (Ord(str[4]) - 48) * 10 + (Ord(str[5]) - 48)

\* minutes since midnight of a datetime
TimeOfDay(t) == t.hour * 60 + t.minute

At(h, m) == [hour |-> h, minute |-> m]

----------------------------------------------------------------------------
(* Activity Locator (MemoryGraphManager.get_activity_at_time and           *)
(* get_current_activity)                                                   *)

\* the interval test with the end bound exclusive
intervalMatchesHalfOpen(activity, time_str) ==
    /\ StrLeq(activity.time_start, time_str)
    /\ StrLeq(time_str, activity.time_end)
    /\ time_str # activity.time_end

\* an interval test that takes time_start > time_end as an interval running
\* over midnight
intervalMatchesWrapping(activity, time_str) ==
    IF StrLeq(activity.time_start, activity.time_end)
    THEN StrLeq(activity.time_start, time_str) /\ StrLeq(time_str, activity.time_end)
    ELSE StrLeq(activity.time_start, time_str) \/ StrLeq(time_str, activity.time_end)

\* the test made on each activity of the scan
intervalMatches(activity, time_str) ==
    /\ StrLeq(activity.time_start, time_str)
    /\ StrLeq(time_str, activity.time_end)

\* the for loop: the first activity, in record order, that matches
RECURSIVE scanActivities(_, _, _)
scanActivities(activities, time_str, i) ==
    IF i > Len(activities) THEN None
    ELSE IF intervalMatches(activities[i], time_str)
         THEN [index |-> i, activity |-> activities[i]]
         ELSE scanActivities(activities, time_str, i + 1)

\* a scan that keeps the last match instead of returning the first
RECURSIVE scanActivitiesLast(_, _, _)
scanActivitiesLast(activities, time_str, i) ==
    IF i < 1 THEN None
    ELSE IF intervalMatches(activities[i], time_str)
         THEN [index |-> i, activity |-> activities[i]]
         ELSE scanActivitiesLast(activities, time_str, i - 1)

get_activity_at_time_last(activities, time) ==
    scanActivitiesLast(activities, strftime(time), Len(activities))

get_activity_at_time(activities, time) ==
    scanActivities(activities, strftime(time), 1)

get_current_activity(activities, current_time) ==
    scanActivities(activities, strftime(current_time), 1)

\* "HH:MM" strings found in the routine record (zero padded, as generated)
RoutineTimes ==
    {strftime(At(6, 0)), strftime(At(7, 0)), strftime(At(9, 30)),
     strftime(At(10, 0))}

\* clock times at which a query is made
QueryTimes ==
    {At(6, 0), At(6, 30), At(7, 0), At(7, 30), At(9, 59), At(10, 0), At(23, 15)}

\* bound on the number of activities of a routine given to the locator
MaxLocActivities == 2

LocatorActivities ==
    [activity : {"Walk"}, time_start : RoutineTimes, time_end : RoutineTimes,
     participants : {<<>>}]

LocatorRoutines ==
    UNION {[1..n -> LocatorActivities] : n \in 0..MaxLocActivities}

GetActivityAtTime ==
    \E t \in QueryTimes :
        located' = [call |-> "get_activity_at_time", time |-> t,
                    result |-> get_activity_at_time(routine_data, t)]

GetCurrentActivity ==
    \E t \in QueryTimes :
        located' = [call |-> "get_current_activity", time |-> t,
                    result |-> get_current_activity(routine_data, t)]

\* the activity's interval, as times of day, contains the time of day t
ContainsTime(activity, t) ==
    /\ MinutesOf(activity.time_start) <= TimeOfDay(t)
    /\ TimeOfDay(t) <= MinutesOf(activity.time_end)

Duration(activity) == MinutesOf(activity.time_end) - MinutesOf(activity.time_start)

\* C4: the locator returns an activity only if time_start <= t <= time_end
\* (both bounds inclusive), and returns None exactly when no activity of the
\* routine contains t.
LocatorReturnsContaining ==
    located # None =>
        /\ located.result # None => ContainsTime(located.result.activity, located.time)
        /\ located.result = None <=>
               ~ \E i \in 1..Len(routine_data) :
                     ContainsTime(routine_data[i], located.time)

\* a query at the very end of an interval, answered with that activity
EndBoundaryWitness ==
    /\ located # None
    /\ located.result # None
    /\ TimeOfDay(located.time) = MinutesOf(located.result.activity.time_end)
    /\ Duration(located.result.activity) > 0

\* C5: when several activities contain the queried time, the locator returns
\* the one that comes first in record order, whatever their durations.
LocatorReturnsFirst ==
    (located # None /\ located.result # None) =>
        /\ located.result.activity = routine_data[located.result.index]
        /\ \A i \in 1..Len(routine_data) :
               ContainsTime(routine_data[i], located.time)
                   => located.result.index <= i

\* two overlapping activities contain the time; the first, longer one is returned
OverlapWitness ==
    /\ located # None
    /\ located.result # None
    /\ located.result.index = 1
    /\ Len(routine_data) >= 2
    /\ ContainsTime(routine_data[2], located.time)
    /\ Duration(routine_data[2]) < Duration(routine_data[1])


\* make_kg_data.py get_current_activity: the interval test on minutes of day
numericMatches(activity, time_str) ==
    /\ MinutesOf(activity.time_start) <= MinutesOf(time_str)
    /\ MinutesOf(time_str) <= MinutesOf(activity.time_end)

RECURSIVE scanActivitiesNumeric(_, _, _)
scanActivitiesNumeric(activities, time_str, i) ==
    IF i > Len(activities) THEN None
    ELSE IF numericMatches(activities[i], time_str)
         THEN [index |-> i, activity |-> activities[i]]
         ELSE scanActivitiesNumeric(activities, time_str, i + 1)

\* make_kg_data.py get_current_activity(time_str, activities)
generator_get_current_activity(time_str, activities) ==
    scanActivitiesNumeric(activities, time_str, 1)

\* C25: for zero-padded HH:MM interval bounds and query times, the locator's
\* lexicographic comparison selects the same activity, or none, as the
\* minutes-of-day comparison of the data generator's get_current_activity.
LexicographicAgreesWithNumeric ==
    located # None =>
        located.result
            = generator_get_current_activity(strftime(located.time), routine_data)

\* the second activity is selected at 09:59 because it starts at 09:30 and
\* the first one, starting at 10:00, does not contain that time
MinutesDecideWitness ==
    /\ located # None
    /\ located.time = At(9, 59)
    /\ located.result # None
    /\ located.result.index = 2
    /\ located.result.activity.time_start = strftime(At(9, 30))
    /\ routine_data[1].time_start = strftime(At(10, 0))

\* the interval runs from time_start over midnight to an earlier time_end
Wraps(activity) == MinutesOf(activity.time_end) < MinutesOf(activity.time_start)

\* the time of day t lies in the wrapped interval of the activity
InWrapped(activity, t) ==
    /\ Wraps(activity)
    /\ \/ MinutesOf(activity.time_start) <= TimeOfDay(t)
       \/ TimeOfDay(t) <= MinutesOf(activity.time_end)

\* C30: an activity whose interval wraps past midnight (time_start later than
\* time_end) is never returned by the locator, whatever the time of day, also
\* for times inside the wrapped interval.
WrappedNeverReturned ==
    located # None =>
        /\ located.result # None => ~ Wraps(located.result.activity)
        /\ (\A i \in 1..Len(routine_data) : Wraps(routine_data[i]))
               => located.result = None

\* the locator was asked for a time inside the wrapped interval of the
\* routine's first activity and returned nothing
InsideWrappedWitness ==
    /\ located # None
    /\ Len(routine_data) >= 1
    /\ InWrapped(routine_data[1], located.time)
    /\ located.result = None


----------------------------------------------------------------------------
(* networkx.MultiDiGraph: node -> attribute dict, a list of edges, and the *)
(* order in which the nodes were first added (the iteration order of       *)
(* G.nodes).                                                               *)

EmptyGraph == [node |-> <<>>, edges |-> <<>>, order |-> <<>>]

NoAttrs == [k \in {} |-> k]

HasNode(G, n) == n \in DOMAIN G.node

\* G.add_node(n, **attrs): a new node, or an update of the attributes of n
add_node(G, n, attrs) ==
    IF HasNode(G, n)
    THEN [G EXCEPT !.node = [@ EXCEPT ![n] = attrs @@ @]]
    ELSE [G EXCEPT !.node = (n :> attrs) @@ @, !.order = Append(@, n)]

\* G.add_edge(u, v, **attrs): endpoints that are not nodes yet are created
\* without attributes; parallel edges are kept
add_edge(G, u, v, attrs) ==
    LET G1 == IF HasNode(G, u) THEN G ELSE add_node(G, u, NoAttrs)
        G2 == IF HasNode(G1, v) THEN G1 ELSE add_node(G1, v, NoAttrs)
    IN  [G2 EXCEPT !.edges = Append(@, [u |-> u, v |-> v] @@ attrs)]

\* node identifiers f"activity_{..}", f"person_{..}", f"memory_{..}"
activity_id(activity) == <<"activity", activity.activity>>
person_id(name) == <<"person", name>>
memory_id(memory) == <<"memory", memory.id>>

----------------------------------------------------------------------------
(* Memory Graph Builder                                                    *)

\* the participant loop body linking only a person it has just created
addParticipantOnce(G, aid, person) ==
    IF HasNode(G, person_id(person.name)) THEN G
    ELSE add_edge(add_node(G, person_id(person.name), [type |-> "person"] @@ person),
                  aid, person_id(person.name), [type |-> "involves"])

\* body of the participant loop
addParticipant(G, aid, person) ==
    LET G1 == add_node(G, person_id(person.name), [type |-> "person"] @@ person)
    IN  add_edge(G1, aid, person_id(person.name), [type |-> "involves"])

RECURSIVE addParticipants(_, _, _, _)
addParticipants(G, aid, participants, j) ==
    IF j > Len(participants) THEN G
    ELSE addParticipants(addParticipant(G, aid, participants[j]),
                         aid, participants, j + 1)

\* body of the activity loop
addActivity(G, activity) ==
    LET G1 == add_node(G, activity_id(activity), [type |-> "activity"] @@ activity)
    IN  addParticipants(G1, activity_id(activity), activity.participants, 1)

RECURSIVE addActivities(_, _, _)
addActivities(G, activities, i) ==
    IF i > Len(activities) THEN G
    ELSE addActivities(addActivity(G, activities[i]), activities, i + 1)

\* the memory-people loop body without the `person_id in G` test
addMemoryPersonUnguarded(G, mid, person) ==
    add_edge(G, mid, person_id(person), [type |-> "involves"])

\* the memory-people loop body with the edge drawn from the person
addMemoryPersonReversed(G, mid, person) ==
    IF HasNode(G, person_id(person))
    THEN add_edge(G, person_id(person), mid, [type |-> "involves"])
    ELSE G

\* body of the loop over the people a memory names
addMemoryPerson(G, mid, person) ==
    IF HasNode(G, person_id(person))
    THEN add_edge(G, mid, person_id(person), [type |-> "involves"])
    ELSE G

RECURSIVE addMemoryPeople(_, _, _, _)
addMemoryPeople(G, mid, people, j) ==
    IF j > Len(people) THEN G
    ELSE addMemoryPeople(addMemoryPerson(G, mid, people[j]), mid, people, j + 1)

\* body of the memory loop
addMemory(G, memory) ==
    LET G1 == add_node(G, memory_id(memory), [type |-> "memory"] @@ memory)
    IN  addMemoryPeople(G1, memory_id(memory), memory.people, 1)

RECURSIVE addMemories(_, _, _)
addMemories(G, memories, i) ==
    IF i > Len(memories) THEN G
    ELSE addMemories(addMemory(G, memories[i]), memories, i + 1)

RECURSIVE addInterviews(_, _, _)
addInterviews(G, interviews, i) ==
    IF i > Len(interviews) THEN G
    ELSE addInterviews(addMemories(G, interviews[i].memories, 1), interviews, i + 1)

\* new_adaptive_agent.py: memories are read from story_data.get('memories', [])
construct_memory_network(routine, story) ==
    LET G1 == addActivities(EmptyGraph, routine, 1)
        memories == IF "memories" \in DOMAIN story THEN story.memories ELSE <<>>
    IN  [raised |-> None, G |-> addMemories(G1, memories, 1)]

\* AdaptiveDialogueAgent.py: memories are read from story_data['interviews']
construct_memory_networks(routine, story) ==
    LET G1 == addActivities(EmptyGraph, routine, 1)
    IN  IF "interviews" \in DOMAIN story
        THEN [raised |-> None, G |-> addInterviews(G1, story.interviews, 1)]
        ELSE [raised |-> [error |-> "KeyError"], G |-> None]

\* bounds on the records given to the builder
MaxGraphActivities == 2
MaxMemories == 1

Mary == [name |-> "Mary", role |-> "daughter"]
Tom == [name |-> "Tom", role |-> "nurse"]

ParticipantLists == {<<>>, <<Mary>>, <<Tom>>, <<Mary, Tom>>, <<Mary, Mary>>}

GraphActivities ==
    [activity : {"Walk", "Lunch"}, time_start : {strftime(At(6, 0))},
     time_end : {strftime(At(7, 0))}, participants : ParticipantLists]

GraphRoutines ==
    UNION {[1..n -> GraphActivities] : n \in 0..MaxGraphActivities}

\* Zoe is named by memories only
PeopleLists == {<<>>, <<"Mary">>, <<"Zoe">>, <<"Zoe", "Mary">>}

Memories == [id : {"m1", "m2"}, people : PeopleLists]

MemoryLists == UNION {[1..n -> Memories] : n \in 0..MaxMemories}

\* the two layouts of the life-story record
Stories ==
    {[memories |-> ms] : ms \in MemoryLists}
        \cup {[interviews |-> <<[memories |-> ms]>>] : ms \in MemoryLists}

ConstructMemoryNetwork ==
    /\ memory_network = None
    /\ memory_network' =
           [builder |-> "construct_memory_network"]
               @@ construct_memory_network(routine_data, story_data)

ConstructMemoryNetworks ==
    /\ memory_network = None
    /\ memory_network' =
           [builder |-> "construct_memory_networks"]
               @@ construct_memory_networks(routine_data, story_data)

\* longest participant or people list of the records
ListLenBound ==
    LET lens == {Len(l) : l \in ParticipantLists} \cup {Len(l) : l \in PeopleLists}
    IN  CHOOSE n \in lens : \A m \in lens : m <= n

\* the graph, once a builder has returned it
Built == memory_network # None /\ memory_network.raised = None

NodeType(G, n) == IF "type" \in DOMAIN G.node[n] THEN G.node[n].type ELSE ""

PersonNodes(G) == {n \in DOMAIN G.node : NodeType(G, n) = "person"}

\* names of the participants of the routine's activities
CoOccurrencesAll ==
    {ij \in (1..Len(routine_data)) \X (1..ListLenBound) :
        ij[2] <= Len(routine_data[ij[1]].participants)}

CoOccurrences(name) ==
    {ij \in CoOccurrencesAll : routine_data[ij[1]].participants[ij[2]].name = name}

ParticipantNames ==
    {routine_data[ij[1]].participants[ij[2]].name : ij \in CoOccurrencesAll}

\* the memories of the life-story record, in either layout
StoryMemories ==
    IF "memories" \in DOMAIN story_data THEN story_data.memories
    ELSE story_data.interviews[1].memories

\* names that memories give and no activity has as a participant
MemoryMentions ==
    {ij \in (1..Len(StoryMemories)) \X (1..ListLenBound) :
        ij[2] <= Len(StoryMemories[ij[1]].people)}

StrangerNames ==
    {StoryMemories[ij[1]].people[ij[2]] : ij \in MemoryMentions} \ ParticipantNames

EdgesInto(G, n, sourceType) ==
    {k \in 1..Len(G.edges) :
        /\ G.edges[k].v = n
        /\ G.edges[k].type = "involves"
        /\ NodeType(G, G.edges[k].u) = sourceType}

\* C6: one Person node per distinct participant name, and into it one
\* involves edge from an Activity node per (activity, participant)
\* co-occurrence of that name.
OnePersonNodePerName ==
    Built =>
        LET G == memory_network.G IN
        \A name \in ParticipantNames :
            /\ Cardinality({n \in PersonNodes(G) : G.node[n].name = name}) = 1
            /\ Cardinality(EdgesInto(G, person_id(name), "activity"))
                   = Cardinality(CoOccurrences(name))

\* Mary takes part in two different activities: one node, two edges
MaryInTwoActivitiesWitness ==
    /\ Built
    /\ Len(routine_data) = 2
    /\ routine_data[1].activity # routine_data[2].activity
    /\ routine_data[1].participants = <<Mary>>
    /\ routine_data[2].participants = <<Mary>>
    /\ Cardinality(EdgesInto(memory_network.G, person_id("Mary"), "activity")) = 2

\* C7: a memory naming a person who is no routine participant adds no edge
\* and no Person node for that name; the Person nodes are exactly the
\* routine participants.
NoNodeForStranger ==
    Built =>
        LET G == memory_network.G IN
        /\ {n \in DOMAIN G.node : n[1] = "person"}
               = {person_id(name) : name \in ParticipantNames}
        /\ PersonNodes(G) = {person_id(name) : name \in ParticipantNames}
        /\ \A name \in StrangerNames :
               /\ ~ HasNode(G, person_id(name))
               /\ \A k \in 1..Len(G.edges) :
                      /\ G.edges[k].v # person_id(name)
                      /\ G.edges[k].u # person_id(name)

\* a memory that names a stranger and a participant got its node and one edge
StrangerNamedWitness ==
    /\ Built
    /\ StrangerNames # {}
    /\ ParticipantNames # {}
    /\ \E n \in DOMAIN memory_network.G.node :
           /\ NodeType(memory_network.G, n) = "memory"
           /\ \E k \in 1..Len(memory_network.G.edges) :
                  memory_network.G.edges[k].u = n

\* C8: every edge is an involves edge from an existing Activity or Memory
\* node to an existing Person node.
EdgesWellFormed ==
    Built =>
        LET G == memory_network.G IN
        \A k \in 1..Len(G.edges) :
            /\ G.edges[k].type = "involves"
            /\ HasNode(G, G.edges[k].u)
            /\ NodeType(G, G.edges[k].u) \in {"activity", "memory"}
            /\ HasNode(G, G.edges[k].v)
            /\ NodeType(G, G.edges[k].v) = "person"

\* a graph holding an edge from an Activity and an edge from a Memory
BothEdgeKindsWitness ==
    /\ Built
    /\ \E k, l \in 1..Len(memory_network.G.edges) :
           /\ NodeType(memory_network.G, memory_network.G.edges[k].u) = "activity"
           /\ NodeType(memory_network.G, memory_network.G.edges[l].u) = "memory"


ActivityNodes(G) == {n \in DOMAIN G.node : NodeType(G, n) = "activity"}

MemoryNodes(G) == {n \in DOMAIN G.node : NodeType(G, n) = "memory"}

\* C17: the builder creates one Activity node for every activity of the
\* routine, also when two activities share a label: there are as many
\* Activity nodes as activities and each activity's attributes are held by
\* its node.
OneActivityNodePerActivity ==
    Built =>
        LET G == memory_network.G IN
        /\ Cardinality(ActivityNodes(G)) = Len(routine_data)
        /\ \A i \in 1..Len(routine_data) :
               /\ HasNode(G, activity_id(routine_data[i]))
               /\ G.node[activity_id(routine_data[i])]
                      = [type |-> "activity"] @@ routine_data[i]

\* C18: for a life story organised as interviews, either builder creates one
\* Memory node per memory of every interview: as many Memory nodes as the
\* interviews hold memories with distinct identifiers.
OneMemoryNodePerInterviewMemory ==
    (memory_network # None /\ "interviews" \in DOMAIN story_data) =>
        /\ Built
        /\ Cardinality(MemoryNodes(memory_network.G))
               = Cardinality({StoryMemories[i].id : i \in 1..Len(StoryMemories)})


----------------------------------------------------------------------------
(* Specifications, one per component.                                      *)

weightVars == <<weights, lastAdjust, nAdjust>>
recordVars == <<routine_data, story_data>>
scorerVars == <<content, keywords, score>>
loadVars == <<files, profile, agent>>
queryVars == <<pc, frame, search_history, response, nQueries>>

\* the agent as constructed: default weights, no adjust call made yet
InitWeights ==
    /\ weights = DefaultWeights
    /\ lastAdjust = None
    /\ nAdjust = 0
    /\ routine_data = <<>>
    /\ story_data = [memories |-> <<>>]
    /\ memory_network = None
    /\ located = None
    /\ content = <<>>
    /\ keywords = <<>>
    /\ score = None
    /\ files = None
    /\ profile = None
    /\ agent = None
    /\ pc = "idle"
    /\ frame = None
    /\ search_history = <<>>
    /\ response = None
    /\ nQueries = 0

\* SearchWeights under a sequence of adjust calls
NextWeights ==
    Adjust /\ UNCHANGED <<recordVars, memory_network, located, scorerVars, loadVars, queryVars>>

SpecWeights == InitWeights /\ [][NextWeights]_vars

\* the Activity Locator on a loaded routine
InitLocator ==
    /\ routine_data \in LocatorRoutines
    /\ story_data = [memories |-> <<>>]
    /\ memory_network = None
    /\ located = None
    /\ weights = DefaultWeights
    /\ lastAdjust = None
    /\ nAdjust = 0
    /\ content = <<>>
    /\ keywords = <<>>
    /\ score = None
    /\ files = None
    /\ profile = None
    /\ agent = None
    /\ pc = "idle"
    /\ frame = None
    /\ search_history = <<>>
    /\ response = None
    /\ nQueries = 0

NextLocator ==
    \/ GetActivityAtTime
          /\ UNCHANGED <<weightVars, recordVars, memory_network, scorerVars, loadVars, queryVars>>
    \/ GetCurrentActivity
          /\ UNCHANGED <<weightVars, recordVars, memory_network, scorerVars, loadVars, queryVars>>

SpecLocator == InitLocator /\ [][NextLocator]_vars

\* MemoryGraphManager.__init__ after load_patient_data
InitGraph ==
    /\ routine_data \in GraphRoutines
    /\ story_data \in Stories
    /\ memory_network = None
    /\ located = None
    /\ weights = DefaultWeights
    /\ lastAdjust = None
    /\ nAdjust = 0
    /\ content = <<>>
    /\ keywords = <<>>
    /\ score = None
    /\ files = None
    /\ profile = None
    /\ agent = None
    /\ pc = "idle"
    /\ frame = None
    /\ search_history = <<>>
    /\ response = None
    /\ nQueries = 0

NextGraph ==
    \/ ConstructMemoryNetwork
          /\ UNCHANGED <<weightVars, recordVars, located, scorerVars, loadVars, queryVars>>
    \/ ConstructMemoryNetworks
          /\ UNCHANGED <<weightVars, recordVars, located, scorerVars, loadVars, queryVars>>

SpecGraph == InitGraph /\ [][NextGraph]_vars


----------------------------------------------------------------------------
(* Agent construction from the patient's record files                      *)
(* (MemoryGraphManager.__init__, load_patient_data and the agent           *)
(* constructors of both files).                                            *)

\* a record file: absent, present but not JSON, or present with its content
FileMissing == [status |-> "missing", data |-> None]
FileMalformed == [status |-> "malformed", data |-> None]
FileOk(data) == [status |-> "ok", data |-> data]

\* open(path) followed by json.load(f) that substitutes an empty record for
\* a file it cannot read
readJsonDefaulting(file) ==
    IF file.status = "ok" THEN [raised |-> None, value |-> file.data]
    ELSE [raised |-> None, value |-> <<>>]

\* `with open(path) as f: ... = json.load(f)`
readJson(file) ==
    IF file.status = "missing" THEN [raised |-> [error |-> "FileNotFoundError"]]
    ELSE IF file.status = "malformed" THEN [raised |-> [error |-> "JSONDecodeError"]]
    ELSE [raised |-> None, value |-> file.data]

\* the body of the try block: profile, then story, then routine; the first
\* failing read leaves the block
loadRecords(fs) ==
    LET p == readJson(fs.profile)
        s == readJson(fs.story)
        r == readJson(fs.routine)
    IN  IF p.raised # None THEN [raised |-> p.raised]
        ELSE IF s.raised # None THEN [raised |-> s.raised]
        ELSE IF r.raised # None THEN [raised |-> r.raised]
        ELSE [raised |-> None, profile |-> p.value, story_data |-> s.value,
              routine_data |-> r.value]

\* new_adaptive_agent.py: every failure is re-raised as Exception
load_patient_data(fs) ==
    LET loaded == loadRecords(fs)
    IN  IF loaded.raised # None THEN [raised |-> [error |-> "Exception"]]
        ELSE loaded

\* AdaptiveDialogueAgent.py: FileNotFoundError is re-raised as such and
\* JSONDecodeError as ValueError
AdaptiveDialogueAgent_load_patient_data(fs) ==
    LET loaded == loadRecords(fs)
    IN  IF loaded.raised = None THEN loaded
        ELSE IF loaded.raised.error = "FileNotFoundError"
        THEN [raised |-> [error |-> "FileNotFoundError"]]
        ELSE IF loaded.raised.error = "JSONDecodeError"
        THEN [raised |-> [error |-> "ValueError"]]
        ELSE [raised |-> [error |-> "Exception"]]

\* AdaptiveDialogueAgent.py dataclass SearchWeights
OptimizedDefaultWeights ==
    [routine_weight |-> Rat(9, 10), story_weight |-> Rat(1, 10)]

\* the record store of one patient
ProfileData == [name |-> "Ann"]

LoadRoutines == {<<>>} \cup {<<a>> : a \in GraphActivities}

FilesOf(dataSet) == {FileMissing, FileMalformed} \cup {FileOk(d) : d \in dataSet}

FileStores ==
    [profile : FilesOf({ProfileData}), story : FilesOf(Stories),
     routine : FilesOf(LoadRoutines)]

\* ReflectiveMemoryAgent(patient_id, api_key): the manager loads the records
\* and builds the graph; an exception leaves no agent
ReflectiveMemoryAgentInit ==
    /\ agent = None
    /\ LET loaded == load_patient_data(files)
           net == construct_memory_network(loaded.routine_data, loaded.story_data)
       IN  IF loaded.raised # None
           THEN /\ agent' = [raised |-> loaded.raised]
                /\ UNCHANGED <<profile, routine_data, story_data, memory_network,
                               weights, search_history>>
           ELSE /\ agent' = [raised |-> None, class |-> "ReflectiveMemoryAgent"]
                /\ profile' = loaded.profile
                /\ story_data' = loaded.story_data
                /\ routine_data' = loaded.routine_data
                /\ memory_network' = [builder |-> "construct_memory_network"] @@ net
                /\ weights' = DefaultWeights
                /\ search_history' = <<>>
    /\ UNCHANGED <<files, pc, frame, response, nQueries, lastAdjust, nAdjust,
                   located, scorerVars>>

\* OptimizedMemoryAgent(patient_id, api_key)
OptimizedMemoryAgentInit ==
    /\ agent = None
    /\ LET loaded == AdaptiveDialogueAgent_load_patient_data(files)
           net == construct_memory_networks(loaded.routine_data, loaded.story_data)
       IN  IF loaded.raised # None
           THEN /\ agent' = [raised |-> loaded.raised]
                /\ UNCHANGED <<profile, routine_data, story_data, memory_network,
                               weights>>
           ELSE IF net.raised # None
           THEN /\ agent' = [raised |-> net.raised]
                /\ UNCHANGED <<profile, routine_data, story_data, memory_network,
                               weights>>
           ELSE /\ agent' = [raised |-> None, class |-> "OptimizedMemoryAgent"]
                /\ profile' = loaded.profile
                /\ story_data' = loaded.story_data
                /\ routine_data' = loaded.routine_data
                /\ memory_network' = [builder |-> "construct_memory_networks"] @@ net
                /\ weights' = OptimizedDefaultWeights
    /\ UNCHANGED <<files, pc, frame, search_history, response, nQueries,
                   lastAdjust, nAdjust, located, scorerVars>>

\* no agent constructed yet; the files are in any of their states
InitLoad ==
    /\ files \in FileStores
    /\ profile = None
    /\ agent = None
    /\ routine_data = None
    /\ story_data = None
    /\ memory_network = None
    /\ weights = None
    /\ lastAdjust = None
    /\ nAdjust = 0
    /\ located = None
    /\ content = <<>>
    /\ keywords = <<>>
    /\ score = None
    /\ pc = "idle"
    /\ frame = None
    /\ search_history = <<>>
    /\ response = None
    /\ nQueries = 0

NextLoad ==
    \/ ReflectiveMemoryAgentInit
    \/ OptimizedMemoryAgentInit

SpecLoad == InitLoad /\ [][NextLoad]_vars

FileNames == {"profile", "story", "routine"}

\* C15: if any of the three records is missing or malformed, constructing
\* the graph manager and the agent fails with an error raised, and no agent
\* exists with default-substituted or partially loaded records: an agent
\* that exists holds exactly the content of the three files.
LoadFailureIsFatal ==
    agent # None =>
        /\ (\E f \in FileNames : files[f].status # "ok") =>
               /\ agent.raised # None
               /\ profile = None /\ story_data = None /\ routine_data = None
               /\ memory_network = None
        /\ agent.raised = None =>
               /\ \A f \in FileNames : files[f].status = "ok"
               /\ profile = files.profile.data
               /\ story_data = files.story.data
               /\ routine_data = files.routine.data

\* the last of the three files is the unreadable one: two records had been
\* loaded when the constructor failed
PartialLoadWitness ==
    /\ agent # None
    /\ files.profile.status = "ok"
    /\ files.story.status = "ok"
    /\ files.routine.status # "ok"
    /\ agent.raised # None


----------------------------------------------------------------------------
(* Relevance Scorer (ReflectiveMemoryAgent._calculate_relevance)           *)

RatMul(n, x) == Rat(n * x.num, x.den)

\* dataclass SearchPriorities
SearchPriorities ==
    [people |-> Rat(2, 5), events |-> Rat(3, 10), time |-> Rat(1, 5),
     location |-> Rat(1, 10)]

\* JSON values: [t |-> "str", v |-> characters], [t |-> "list", v |-> values],
\* [t |-> "dict", v |-> <<key, value>> pairs in insertion order]
JStr(chars) == [t |-> "str", v |-> chars]
JList(values) == [t |-> "list", v |-> values]
JDict(items) == [t |-> "dict", v |-> items]

\* json.dumps escapes non-ASCII characters (ensure_ascii) and the quote
escapeChar(c) ==
    IF c = "é" THEN <<"\\", "u", "0", "0", "e", "9">>
    ELSE IF c = "\"" THEN <<"\\", "\"">>
    ELSE <<c>>

RECURSIVE escape(_)
escape(chars) ==
    IF chars = <<>> THEN <<>> ELSE escapeChar(Head(chars)) \o escape(Tail(chars))

RECURSIVE json_dumps(_)
RECURSIVE dumpsList(_, _)
RECURSIVE dumpsItems(_, _)

\* json.dumps with the default separators ", " and ": "
json_dumps(x) ==
    IF x.t = "str" THEN <<"\"">> \o escape(x.v) \o <<"\"">>
    ELSE IF x.t = "list" THEN <<"[">> \o dumpsList(x.v, 1) \o <<"]">>
    ELSE <<"{">> \o dumpsItems(x.v, 1) \o <<"}">>

dumpsList(values, i) ==
    IF i > Len(values) THEN <<>>
    ELSE (IF i > 1 THEN <<",", " ">> ELSE <<>>)
            \o json_dumps(values[i]) \o dumpsList(values, i + 1)

dumpsItems(items, i) ==
    IF i > Len(items) THEN <<>>
    ELSE (IF i > 1 THEN <<",", " ">> ELSE <<>>)
            \o <<"\"">> \o escape(items[i][1]) \o <<"\"", ":", " ">>
            \o json_dumps(items[i][2]) \o dumpsItems(items, i + 1)

\* str.lower() on the letters that occur in the model
lowerChar(c) ==
    CASE c = "W" -> "w"
      [] c = "T" -> "t"
      [] c = "P" -> "p"
      [] c = "Z" -> "z"
      [] c = "L" -> "l"
      [] c = "M" -> "m"
      [] c = "A" -> "a"
      [] OTHER -> c

lower(chars) == [i \in 1..Len(chars) |-> lowerChar(chars[i])]

\* Python's `sub in text` on strings
Contains(text, sub) ==
    \E i \in 0..(Len(text) - Len(sub)) :
        \A j \in 1..Len(sub) : text[i + j] = sub[j]

\* keyword terms: a plain string, a dict with optional 'term'/'name' fields,
\* or a value of another type
TermString(chars) == [t |-> "str", s |-> chars]
TermDict(d) == [t |-> "dict", d |-> d]
TermOther == [t |-> "other"]

\* term.get('term') or term.get('name') or ''
dictTermString(d) ==
    IF "term" \in DOMAIN d /\ d.term # <<>> THEN d.term
    ELSE IF "name" \in DOMAIN d /\ d.name # <<>> THEN d.name
    ELSE <<>>

\* the isinstance chain that yields term_str
term_str(term) ==
    IF term.t = "dict" THEN dictTermString(term.d)
    ELSE IF term.t = "str" THEN term.s
    ELSE <<>>

termMatches(term, text) == Contains(text, lower(term_str(term)))

RECURSIVE countMatchesFrom(_, _, _)
countMatchesFrom(terms, text, j) ==
    IF j > Len(terms) THEN 0
    ELSE (IF termMatches(terms[j], text) THEN 1 ELSE 0)
            + countMatchesFrom(terms, text, j + 1)

\* the inner loop leaving at the first term that does not match
RECURSIVE countLeadingMatches(_, _, _)
countLeadingMatches(terms, text, j) ==
    IF j > Len(terms) \/ ~ termMatches(terms[j], text) THEN 0
    ELSE 1 + countLeadingMatches(terms, text, j + 1)

countMatchesUntilMiss(terms, text) == countLeadingMatches(terms, text, 1)

\* the inner loop recording only whether some term matches
countMatchesAny(terms, text) ==
    IF \E j \in 1..Len(terms) : termMatches(terms[j], text) THEN 1 ELSE 0

\* the inner loop: matches
countMatches(terms, text) == countMatchesFrom(terms, text, 1)

\* the outer loop over keywords.items(); getattr raises AttributeError on a
\* category SearchPriorities does not have
RECURSIVE scoreItems(_, _, _, _)
scoreItems(items, text, i, acc) ==
    IF i > Len(items) THEN [value |-> acc]
    ELSE IF items[i][1] \notin DOMAIN SearchPriorities
    THEN [error |-> "AttributeError"]
    ELSE scoreItems(items, text, i + 1,
             RatAdd(acc, RatMul(countMatches(items[i][2], text),
                                SearchPriorities[items[i][1]])))

calculate_relevance(c, kw) ==
    scoreItems(kw, lower(json_dumps(c)), 1, Rat(0, 1))

\* bound on the number of terms of one keyword category
MaxTerms == 2

Contents ==
    {JDict(<<<<<<"a", "c", "t", "i", "v", "i", "t", "y">>, JStr(<<"W", "a", "l", "k">>)>>, <<<<"l", "o", "c", "a", "t", "i", "o", "n">>, JStr(<<"P", "a", "r", "k">>)>>>>),
     JDict(<<<<<<"n", "a", "m", "e">>, JStr(<<"T", "o", "m">>)>>, <<<<"r", "o", "l", "e">>, JStr(<<"Z", "o", "é">>)>>>>)}

Terms ==
    {TermString(<<"w", "a", "l", "k">>), TermString(<<"T", "o", "m">>), TermString(<<"z", "z">>),
     TermDict([name |-> <<"P", "a", "r", "k">>]), TermOther}

TermLists == UNION {[1..n -> Terms] : n \in 0..MaxTerms}

\* term lists of the second category: at most one term, or one mixed pair
EventTermLists ==
    {<<>>} \cup {<<t>> : t \in Terms}
        \cup {<<TermString(<<"z", "z">>), TermString(<<"w", "a", "l", "k">>)>>}

\* keyword maps: people with any term list or absent, events likewise from
\* the shorter lists, and optionally a category that SearchPriorities does
\* not define
KeywordMaps ==
    {p \o e \o x :
        p \in {<<>>} \cup {<<<<"people", ts>>>> : ts \in TermLists},
        e \in {<<>>} \cup {<<<<"events", ts>>>> : ts \in EventTermLists},
        x \in {<<>>, <<<<"emotions", <<TermString(<<"w", "a", "l", "k">>)>>>>>>}}

InitScore ==
    /\ content \in Contents
    /\ keywords \in KeywordMaps
    /\ score = None
    /\ weights = DefaultWeights
    /\ lastAdjust = None
    /\ nAdjust = 0
    /\ routine_data = <<>>
    /\ story_data = [memories |-> <<>>]
    /\ memory_network = None
    /\ located = None
    /\ files = None
    /\ profile = None
    /\ agent = None
    /\ pc = "idle"
    /\ frame = None
    /\ search_history = <<>>
    /\ response = None
    /\ nQueries = 0

CalculateRelevance ==
    /\ score = None
    /\ score' = calculate_relevance(content, keywords)
    /\ UNCHANGED <<content, keywords>>

Scored == score # None /\ "value" \in DOMAIN score

\* the orderings of a list
PermsOf(list) ==
    {[i \in 1..Len(list) |-> list[f[i]]] : f \in Permutations(1..Len(list))}

\* the keyword maps got from kw by reordering the terms of each category
Reorderings(kw) ==
    LET lists == UNION {PermsOf(kw[i][2]) : i \in 1..Len(kw)}
        picks == {f \in [1..Len(kw) -> lists] :
                     \A i \in 1..Len(kw) : f[i] \in PermsOf(kw[i][2])}
    IN  {[i \in 1..Len(kw) |-> <<kw[i][1], f[i]>>] : f \in picks}

\* C9: the relevance score does not depend on the order of the terms within
\* a category: every reordering of the term lists gives the same score.
ScoreOrderInvariant ==
    score # None =>
        \A kw \in Reorderings(keywords) : calculate_relevance(content, kw) = score

\* the term, normalised and lower-cased, is a substring of the serialized content
OccursInContent(term) ==
    Contains(lower(json_dumps(content)), lower(term_str(term)))

\* a scored category lists a term that occurs before one that does not
MixedOrderWitness ==
    /\ Scored
    /\ score.value # Rat(0, 1)
    /\ \E i \in 1..Len(keywords) :
           /\ Len(keywords[i][2]) = 2
           /\ OccursInContent(keywords[i][2][2])
           /\ ~ OccursInContent(keywords[i][2][1])

\* C10: the score is non-negative; adding a term to a category's list never
\* lowers it, and adding a string or named term that occurs in the content
\* raises it by exactly the category's priority weight.
ScoreMonotone ==
    Scored =>
        /\ RatLeq(Rat(0, 1), score.value)
        /\ \A i \in 1..Len(keywords), t \in Terms :
               LET more == calculate_relevance(content,
                               [keywords EXCEPT ![i][2] = Append(@, t)])
               IN  /\ "value" \in DOMAIN more
                   /\ RatLeq(score.value, more.value)
                   /\ (t.t # "other" /\ OccursInContent(t)) =>
                          more.value = RatAdd(score.value,
                                              SearchPriorities[keywords[i][1]])

\* a category that already holds an occurring term was scored
OccurringTermWitness ==
    /\ Scored
    /\ \E i \in 1..Len(keywords) :
           /\ Len(keywords[i][2]) >= 1
           /\ keywords[i][2][1].t = "str"
           /\ OccursInContent(keywords[i][2][1])
           /\ RatLeq(SearchPriorities[keywords[i][1]], score.value)

\* a term of unrecognized shape: neither a string nor an object whose term or
\* name field is a non-empty string
Unrecognized(term) ==
    \/ term.t = "other"
    \/ term.t = "dict" /\ dictTermString(term.d) = <<>>

\* the keyword map with the unrecognized terms taken out of every category
WithoutUnrecognized(kw) ==
    [i \in 1..Len(kw) |->
        <<kw[i][1], SelectSeq(kw[i][2], LAMBDA t : ~ Unrecognized(t))>>]

\* C11: a term of unrecognized shape is normalised to the empty string and
\* contributes zero to the score without raising: the score of a keyword map
\* is the score of the same map without its unrecognized terms.
UnrecognizedContributesZero ==
    score # None =>
        /\ \A i \in 1..Len(keywords) : \A j \in 1..Len(keywords[i][2]) :
               Unrecognized(keywords[i][2][j]) => term_str(keywords[i][2][j]) = <<>>
        /\ score = calculate_relevance(content, WithoutUnrecognized(keywords))

\* number of the terms that occur, lower-cased, in the lower-cased
\* serialized content
OccurringTerms(c, terms) ==
    Cardinality({j \in 1..Len(terms) :
        Contains(lower(json_dumps(c)), lower(term_str(terms[j])))})

\* sum over the categories of kw from the i-th on that SearchPriorities
\* defines, of the priority weight times the number of occurring terms
RECURSIVE DefinedCategoriesSum(_, _, _)
DefinedCategoriesSum(c, kw, i) ==
    IF i > Len(kw) THEN Rat(0, 1)
    ELSE RatAdd(IF kw[i][1] \in DOMAIN SearchPriorities
                THEN RatMul(OccurringTerms(c, kw[i][2]), SearchPriorities[kw[i][1]])
                ELSE Rat(0, 1),
                DefinedCategoriesSum(c, kw, i + 1))

\* C24: the score is the sum, over the categories present both in the
\* keyword map and in SearchPriorities, of the priority weight times the
\* number of the category's terms that occur in the serialized content; a
\* category SearchPriorities does not define adds nothing and is no error.
ScoreSumsDefinedCategories ==
    score # None => score = [value |-> DefinedCategoriesSum(content, keywords, 1)]

\* the scorer on one content and one keyword map
NextScore ==
    CalculateRelevance
        /\ UNCHANGED <<weightVars, recordVars, memory_network, located, loadVars, queryVars>>

SpecScore == InitScore /\ [][NextScore]_vars

----------------------------------------------------------------------------
(* ReflectiveMemoryAgent.process_query and its collaborators               *)
(* (new_adaptive_agent.py).                                                *)

\* dataclass RelevanceThresholds
RelevanceThresholds ==
    [min_score |-> Rat(1, 2), strong_match |-> Rat(7, 10),
     keyword_overlap |-> Rat(3, 10)]

\* the characters of the strings that occur in the records
Chars(s) ==
    CASE s = "Walk" -> <<"W", "a", "l", "k">>
      [] s = "Lunch" -> <<"L", "u", "n", "c", "h">>
      [] s = "Mary" -> <<"M", "a", "r", "y">>
      [] s = "Tom" -> <<"T", "o", "m">>
      [] s = "Zoe" -> <<"Z", "o", "e">>
      [] s = "Ann" -> <<"A", "n", "n">>
      [] s = "daughter" -> <<"d", "a", "u", "g", "h", "t", "e", "r">>
      [] s = "nurse" -> <<"n", "u", "r", "s", "e">>
      [] s = "m1" -> <<"m", "1">>
      [] s = "m2" -> <<"m", "2">>
      [] s = "activity" -> <<"a", "c", "t", "i", "v", "i", "t", "y">>
      [] s = "person" -> <<"p", "e", "r", "s", "o", "n">>
      [] s = "memory" -> <<"m", "e", "m", "o", "r", "y">>
      [] s = "type" -> <<"t", "y", "p", "e">>
      [] s = "time_start" -> <<"t", "i", "m", "e", "_", "s", "t", "a", "r", "t">>
      [] s = "time_end" -> <<"t", "i", "m", "e", "_", "e", "n", "d">>
      [] s = "participants" -> <<"p", "a", "r", "t", "i", "c", "i", "p", "a", "n", "t", "s">>
      [] s = "name" -> <<"n", "a", "m", "e">>
      [] s = "role" -> <<"r", "o", "l", "e">>
      [] s = "id" -> <<"i", "d">>
      [] s = "people" -> <<"p", "e", "o", "p", "l", "e">>

\* key order of the record files: activities, participants, memories
FieldOrder ==
    <<"type", "time_start", "time_end", "activity", "participants", "role",
      "name", "id", "people">>

personJson(person) ==
    JDict(<<<<Chars("role"), JStr(Chars(person.role))>>,
            <<Chars("name"), JStr(Chars(person.name))>>>>)

\* the JSON value of one field of an activity, person or memory dict
fieldJson(key, v) ==
    IF key = "participants" THEN JList([j \in 1..Len(v) |-> personJson(v[j])])
    ELSE IF key = "people" THEN JList([j \in 1..Len(v) |-> JStr(Chars(v[j]))])
    ELSE IF key \in {"time_start", "time_end"} THEN JStr(v)
    ELSE JStr(Chars(v))

RECURSIVE dictItems(_, _)
dictItems(d, k) ==
    IF k > Len(FieldOrder) THEN <<>>
    ELSE (IF FieldOrder[k] \in DOMAIN d
          THEN <<<<Chars(FieldOrder[k]), fieldJson(FieldOrder[k], d[FieldOrder[k]])>>>>
          ELSE <<>>) \o dictItems(d, k + 1)

\* an activity dict or a node's attribute dict as the value json.dumps is given
dictJson(d) == JDict(dictItems(d, 1))

\* sorted(results, key=relevance, reverse=True): descending, and stable, so
\* results of equal relevance keep the order in which they were found
insertByRelevance(sorted, r) ==
    LET after == {k \in 1..Len(sorted) : RatLess(sorted[k].relevance, r.relevance)}
        at == IF after = {} THEN Len(sorted) + 1
              ELSE CHOOSE k \in after : \A l \in after : k <= l
    IN  SubSeq(sorted, 1, at - 1) \o <<r>> \o SubSeq(sorted, at, Len(sorted))

\* the results left in the order in which the nodes were found
foundOrder(results, k) == results

RECURSIVE sortedByRelevance(_, _)
sortedByRelevance(results, k) ==
    IF k = 0 THEN <<>>
    ELSE insertByRelevance(sortedByRelevance(results, k - 1), results[k])

\* results[:n]
Take(seq, n) == SubSeq(seq, 1, IF Len(seq) < n THEN Len(seq) ELSE n)

\* x * y on floats
RatTimes(x, y) ==
    LET g1 == GCD(x.num, y.den)
        g2 == GCD(y.num, x.den)
    IN  Rat((x.num \div g1) * (y.num \div g2), (x.den \div g2) * (y.den \div g1))

\* `relevance >= self.thresholds.min_score` with the bound exclusive
exceedsMinScore(relevance) == RatLess(RelevanceThresholds.min_score, relevance)

\* `relevance >= self.thresholds.min_score`
meetsMinScore(relevance) == RatLeq(RelevanceThresholds.min_score, relevance)

\* the loop of _search_knowledge_graphs over the nodes in iteration order:
\* an error of the scorer leaves the loop
RECURSIVE searchNodes(_, _, _, _, _)
searchNodes(G, kw, w, k, acc) ==
    IF k > Len(G.order) THEN [raised |-> None, value |-> acc]
    ELSE
        LET attrs == G.node[G.order[k]]
            relevance == calculate_relevance(dictJson(attrs), kw)
        IN  IF "error" \in DOMAIN relevance THEN [raised |-> relevance]
            ELSE IF "type" \notin DOMAIN attrs THEN [raised |-> [error |-> "KeyError"]]
            ELSE
                LET source_type == IF attrs.type = "activity" THEN "routine" ELSE "story"
                    weight == IF source_type = "routine" THEN w.routine_weight
                              ELSE w.story_weight
                    weighted_relevance == RatTimes(relevance.value, weight)
                IN  searchNodes(G, kw, w, k + 1,
                        IF meetsMinScore(weighted_relevance)
                        THEN Append(acc, [type |-> attrs.type, content |-> attrs,
                                          relevance |-> weighted_relevance,
                                          source |-> source_type])
                        ELSE acc)

\* number of results the broadened search returns at most
GraphResultsCap == 4

search_knowledge_graphs(G, kw, w) ==
    LET found == searchNodes(G, kw, w, 1, <<>>)
    IN  IF found.raised # None THEN found
        ELSE [raised |-> None,
              value |-> Take(sortedByRelevance(found.value, Len(found.value)),
                             GraphResultsCap)]

\* process_query, "First check current activity relevance": the candidate
\* list given to the first evaluation
initialResults(current_activity, kw) ==
    IF current_activity = None THEN [raised |-> None, value |-> <<>>]
    ELSE
        LET relevance == calculate_relevance(dictJson(current_activity.activity), kw)
        IN  IF "error" \in DOMAIN relevance THEN [raised |-> relevance]
            ELSE [raised |-> None,
                  value |-> IF meetsMinScore(relevance.value)
                            THEN <<[type |-> "activity",
                                    content |-> current_activity.activity,
                                    relevance |-> relevance.value,
                                    source |-> "routine"]>>
                            ELSE <<>>]

\* the strategy _analyze_dialogue returns when the reply is not JSON
FallbackStrategy ==
    [keywords |-> <<<<"people", <<>>>>, <<"events", <<>>>>, <<"time", <<>>>>,
                    <<"location", <<>>>>>>,
     focus |-> "both", temporal_context |-> "both"]

\* number of results process_query returns at most
ResultsCap == 8

\* what a call of the language model gives back: the client raises, or the
\* reply text is not JSON, or it is JSON with the given value
ApiError == [kind |-> "error"]
NotJson == [kind |-> "text"]
JsonReply(value) == [kind |-> "json", value |-> value]

\* the patient of the session
QueryRoutine ==
    <<[activity |-> "Walk", time_start |-> strftime(At(6, 0)),
       time_end |-> strftime(At(7, 0)), participants |-> <<Tom>>],
      [activity |-> "Lunch", time_start |-> strftime(At(9, 30)),
       time_end |-> strftime(At(10, 0)), participants |-> <<Mary, Tom>>]>>

QueryStory ==
    [memories |-> <<[id |-> "m1", people |-> <<"Tom">>],
                    [id |-> "m2", people |-> <<"Zoe", "Tom">>]>>]

\* clock times of the queries: at the end of Walk, and during no activity
QueryClock == {At(7, 0), At(7, 30)}

\* keyword maps the language model answers with. On the Walk activity they
\* score 0.3, exactly 0.5, and 1.2; the fourth has a category
\* SearchPriorities does not define
KwBelow == <<<<"events", <<TermString(<<"w", "a", "l", "k">>)>>>>>>
KwBoundary ==
    <<<<"people", <<TermString(<<"T", "o", "m">>)>>>>,
      <<"location", <<TermString(<<"w", "a", "l", "k">>)>>>>>>
KwRich ==
    <<<<"people", <<TermString(<<"T", "o", "m">>), TermString(<<"t", "o", "m">>),
                    TermDict([name |-> <<"T", "o", "m">>])>>>>>>
KwUnknown == <<<<"emotions", <<TermString(<<"w", "a", "l", "k">>)>>>>>>

\* scores 0.5 on the Walk activity and 1.3 on the Lunch activity
KwSpread ==
    <<<<"people", <<TermString(<<"T", "o", "m">>)>>>>,
      <<"location", <<TermString(<<"w", "a", "l", "k">>)>>>>,
      <<"events", <<TermString(<<"M", "a", "r", "y">>),
                    TermString(<<"l", "u", "n", "c", "h">>),
                    TermString(<<"d", "a", "u", "g", "h", "t", "e", "r">>)>>>>>>

NluKeywordMaps == {KwBelow, KwBoundary, KwUnknown}
ExpandedKeywordMaps == {KwRich, KwBoundary, KwUnknown, KwSpread}

\* JSON objects the analysis call answers with: the three fields, or one of
\* them absent
Analyses ==
    {[keywords |-> k, focus |-> "routine", temporal_context |-> "current"] :
        k \in NluKeywordMaps}
    \cup {[focus |-> "routine", temporal_context |-> "current"],
          [keywords |-> KwBoundary, temporal_context |-> "current"],
          [keywords |-> KwBoundary, focus |-> "routine"]}

NluReplies == {ApiError, NotJson} \cup {JsonReply(a) : a \in Analyses}

ExpandReplies == {ApiError, NotJson} \cup {JsonReply(k) : k \in ExpandedKeywordMaps}

\* JSON objects the evaluator answers with: the fields process_query reads
\* (a sufficient judgment scores 0.9, an insufficient one 0.3), or one of
\* them absent
Judgments ==
    {[score |-> IF s THEN Rat(9, 10) ELSE Rat(3, 10), sufficient |-> s,
      focus_recommendation |-> r] :
        s \in BOOLEAN, r \in {"routine", "memory", "balanced"}}
    \cup {[score |-> Rat(9, 10), focus_recommendation |-> "routine"],
          [score |-> Rat(9, 10), sufficient |-> TRUE],
          [sufficient |-> TRUE, focus_recommendation |-> "routine"]}

EvalReplies == {ApiError, NotJson} \cup {JsonReply(e) : e \in Judgments}

\* bound on the number of process_query calls of one session
MaxQueries == 2

\* the locals of a process_query call that has just been entered
NewFrame(text, time, current_activity) ==
    [text |-> text, current_time |-> time, current_activity |-> current_activity,
     analysis |-> None, strategy |-> None, results |-> <<>>,
     initial_effectiveness |-> None,
     graph_results |-> None,
     calls |-> <<>>,      \* the collaborator calls made so far and their replies
     searched |-> 0,      \* number of _search_knowledge_graphs calls made
     adjusted |-> <<>>]   \* the judgments weights.adjust was called with

\* an exception leaves process_query
Raise(error) ==
    /\ pc' = "raised"
    /\ response' = [raised |-> [error |-> error]]

\* process_query up to the request of _analyze_dialogue: the Activity
\* Locator, the DialogueContext and the analysis prompt
ProcessQuery ==
    /\ pc \in {"idle", "done", "raised"}
    /\ nQueries < MaxQueries
    /\ \E t \in QueryClock :
          frame' = NewFrame(nQueries + 1, t, get_activity_at_time(routine_data, t))
    /\ nQueries' = nQueries + 1
    /\ pc' = "analyze"
    /\ response' = None
    /\ UNCHANGED <<weightVars, search_history>>

\* process_query from the strategy to the request of the first evaluation
ScoreCurrentActivity(f, strategy) ==
    LET first == initialResults(f.current_activity, strategy.keywords)
    IN  IF first.raised # None
        THEN /\ frame' = [f EXCEPT !.strategy = strategy]
             /\ Raise(first.raised.error)
        ELSE /\ frame' = [f EXCEPT !.strategy = strategy, !.results = first.value]
             /\ pc' = "evaluate"
             /\ UNCHANGED response

\* the analysis call returns: a client error and a missing 'keywords' field
\* propagate, a reply that is not JSON gives the fallback strategy, and
\* otherwise _expand_keywords is requested
AnalyzeReturns ==
    /\ pc = "analyze"
    /\ \E reply \in NluReplies :
          LET f == [frame EXCEPT !.calls = Append(@, [call |-> "analyze", reply |-> reply])]
          IN  IF reply.kind = "error"
              THEN frame' = f /\ Raise("APIError")
              ELSE IF reply.kind = "text"
              THEN ScoreCurrentActivity(f, FallbackStrategy)
              ELSE IF "keywords" \notin DOMAIN reply.value
              THEN frame' = [f EXCEPT !.analysis = reply.value] /\ Raise("KeyError")
              ELSE /\ frame' = [f EXCEPT !.analysis = reply.value]
                   /\ pc' = "expand"
                   /\ UNCHANGED response
    /\ UNCHANGED <<weightVars, search_history, nQueries>>

\* the expansion call returns: a client error propagates, a reply that is
\* not JSON gives the keywords back unexpanded; then the strategy is built
\* from the analysis, whose missing fields raise KeyError
ExpandReturns ==
    /\ pc = "expand"
    /\ \E reply \in ExpandReplies :
          LET f == [frame EXCEPT !.calls = Append(@, [call |-> "expand", reply |-> reply])]
              expanded == IF reply.kind = "text" THEN frame.analysis.keywords
                          ELSE reply.value
          IN  IF reply.kind = "error"
              THEN frame' = f /\ Raise("APIError")
              ELSE IF \/ "focus" \notin DOMAIN frame.analysis
                      \/ "temporal_context" \notin DOMAIN frame.analysis
              THEN frame' = f /\ Raise("KeyError")
              ELSE ScoreCurrentActivity(f,
                       [keywords |-> expanded, focus |-> frame.analysis.focus,
                        temporal_context |-> frame.analysis.temporal_context])
    /\ UNCHANGED <<weightVars, search_history, nQueries>>

\* the reflection with the history entry written before the adjustment:
\* it records the weights the query started with
ReflectRecordingFirst(f) ==
    LET eff == f.initial_effectiveness
        w == adjust(weights, eff)
        now == [routine |-> w.routine_weight, story |-> w.story_weight]
    IN  IF "focus_recommendation" \notin DOMAIN eff
        THEN /\ frame' = f
             /\ Raise("KeyError")
             /\ UNCHANGED <<weightVars, search_history>>
        ELSE /\ weights' = w
             /\ lastAdjust' = [focus |-> eff.focus_recommendation, before |-> weights]
             /\ nAdjust' = nAdjust + 1
             /\ frame' = [f EXCEPT !.adjusted = Append(@, eff)]
             /\ IF "score" \notin DOMAIN eff
                THEN Raise("KeyError") /\ UNCHANGED search_history
                ELSE /\ search_history' =
                            Append(search_history,
                                   [query |-> f.text, effectiveness |-> eff.score,
                                    weights |-> [routine |-> weights.routine_weight,
                                                 story |-> weights.story_weight]])
                     /\ response' =
                            [returned |->
                                [query_time |-> strftime(f.current_time),
                                 current_activity |-> f.current_activity,
                                 keyword_analysis |->
                                     [original |-> f.strategy.keywords,
                                      expanded |-> f.strategy.keywords],
                                 results |-> Take(f.results, ResultsCap),
                                 search_performance |->
                                     [effectiveness |-> eff, weights |-> now]]]
                     /\ pc' = "done"

\* "Final reflection and weight adjustment", the history entry and the
\* returned dict; f is the frame holding the last judgment
Reflect(f) ==
    LET eff == f.initial_effectiveness
        w == adjust(weights, eff)
        now == [routine |-> w.routine_weight, story |-> w.story_weight]
    IN  IF "focus_recommendation" \notin DOMAIN eff
        THEN /\ frame' = f
             /\ Raise("KeyError")
             /\ UNCHANGED <<weightVars, search_history>>
        ELSE /\ weights' = w
             /\ lastAdjust' = [focus |-> eff.focus_recommendation, before |-> weights]
             /\ nAdjust' = nAdjust + 1
             /\ frame' = [f EXCEPT !.adjusted = Append(@, eff)]
             /\ IF "score" \notin DOMAIN eff
                THEN Raise("KeyError") /\ UNCHANGED search_history
                ELSE /\ search_history' =
                            Append(search_history,
                                   [query |-> f.text, effectiveness |-> eff.score,
                                    weights |-> now])
                     /\ response' =
                            [returned |->
                                [query_time |-> strftime(f.current_time),
                                 current_activity |-> f.current_activity,
                                 keyword_analysis |->
                                     [original |-> f.strategy.keywords,
                                      expanded |-> f.strategy.keywords],
                                 results |-> Take(f.results, ResultsCap),
                                 search_performance |->
                                     [effectiveness |-> eff, weights |-> now]]]
                     /\ pc' = "done"

\* the first evaluation returns: the evaluator's failures propagate; a
\* sufficient judgment goes on to the reflection, an insufficient one to the
\* graph search and the request of the second evaluation
EvaluateReturns ==
    /\ pc = "evaluate"
    /\ \E reply \in EvalReplies :
          LET f == [frame EXCEPT !.calls = Append(@, [call |-> "evaluate", reply |-> reply])]
          IN  IF reply.kind = "error"
              THEN frame' = f /\ Raise("APIError") /\ UNCHANGED <<weightVars, search_history>>
              ELSE IF reply.kind = "text"
              THEN frame' = f /\ Raise("JSONDecodeError")
                              /\ UNCHANGED <<weightVars, search_history>>
              ELSE IF "sufficient" \notin DOMAIN reply.value
              THEN /\ frame' = [f EXCEPT !.initial_effectiveness = reply.value]
                   /\ Raise("KeyError")
                   /\ UNCHANGED <<weightVars, search_history>>
              ELSE IF reply.value.sufficient
              THEN Reflect([f EXCEPT !.initial_effectiveness = reply.value])
              ELSE
                  LET graph_results ==
                          search_knowledge_graphs(memory_network.G,
                                                  frame.strategy.keywords, weights)
                      g == [f EXCEPT !.initial_effectiveness = reply.value,
                                     !.searched = @ + 1]
                  IN  /\ IF graph_results.raised # None
                         THEN frame' = g /\ Raise(graph_results.raised.error)
                         ELSE /\ frame' = [g EXCEPT !.graph_results = graph_results.value,
                                                    !.results = @ \o graph_results.value]
                              /\ pc' = "reevaluate"
                              /\ UNCHANGED response
                      /\ UNCHANGED <<weightVars, search_history>>
    /\ UNCHANGED nQueries

\* a second evaluation whose failure comes after the weights were adjusted
\* with the first judgment
ReevaluateAdjustingFirst ==
    /\ pc = "reevaluate"
    /\ \E reply \in EvalReplies :
          LET f == [frame EXCEPT !.calls = Append(@, [call |-> "evaluate", reply |-> reply])]
              eff == frame.initial_effectiveness
          IN  IF reply.kind \in {"error", "text"}
              THEN /\ frame' = f
                   /\ Raise(IF reply.kind = "error" THEN "APIError" ELSE "JSONDecodeError")
                   /\ weights' = IF "focus_recommendation" \in DOMAIN eff
                                 THEN adjust(weights, eff) ELSE weights
                   /\ UNCHANGED <<lastAdjust, nAdjust, search_history>>
              ELSE Reflect([f EXCEPT !.initial_effectiveness = reply.value])
    /\ UNCHANGED nQueries

\* the second evaluation returns: its judgment replaces the first and the
\* query goes on to the reflection whatever it says
ReevaluateReturns ==
    /\ pc = "reevaluate"
    /\ \E reply \in EvalReplies :
          LET f == [frame EXCEPT !.calls = Append(@, [call |-> "evaluate", reply |-> reply])]
          IN  IF reply.kind = "error"
              THEN frame' = f /\ Raise("APIError") /\ UNCHANGED <<weightVars, search_history>>
              ELSE IF reply.kind = "text"
              THEN frame' = f /\ Raise("JSONDecodeError")
                              /\ UNCHANGED <<weightVars, search_history>>
              ELSE Reflect([f EXCEPT !.initial_effectiveness = reply.value])
    /\ UNCHANGED nQueries

\* the agent as constructed for the patient: graph built, default weights,
\* empty history, no query made
InitQuery ==
    /\ files = None
    /\ profile = ProfileData
    /\ agent = [raised |-> None, class |-> "ReflectiveMemoryAgent"]
    /\ routine_data = QueryRoutine
    /\ story_data = QueryStory
    /\ memory_network = [builder |-> "construct_memory_network"]
                            @@ construct_memory_network(QueryRoutine, QueryStory)
    /\ weights = DefaultWeights
    /\ lastAdjust = None
    /\ nAdjust = 0
    /\ located = None
    /\ content = <<>>
    /\ keywords = <<>>
    /\ score = None
    /\ pc = "idle"
    /\ frame = None
    /\ search_history = <<>>
    /\ response = None
    /\ nQueries = 0

\* a query whose graph search drops the edges of the graph it walks
QueryDroppingEdges ==
    /\ memory_network' = [memory_network EXCEPT !.G.edges = <<>>]
    /\ UNCHANGED <<recordVars, located, scorerVars, loadVars>>

\* process_query and the methods it calls assign nothing of the graph
\* manager: the records, the graph and the profile are only read
QueryReadsOnly ==
    UNCHANGED <<recordVars, memory_network, located, scorerVars, loadVars>>

\* a session of process_query calls, one at a time, each advancing when the
\* collaborator it waits for answers
NextQuery ==
    \/ ProcessQuery /\ QueryReadsOnly
    \/ AnalyzeReturns /\ QueryReadsOnly
    \/ ExpandReturns /\ QueryReadsOnly
    \/ EvaluateReturns /\ QueryReadsOnly
    \/ ReevaluateReturns /\ QueryReadsOnly

SpecQuery == InitQuery /\ [][NextQuery]_vars

Last(seq) == seq[Len(seq)]

\* the replies the evaluator gave in the running or last query
EvaluatorReplies(f) == SelectSeq(f.calls, LAMBDA c : c.call = "evaluate")

\* C12: process_query always returns a result object: a failed or
\* unparseable call of the NLU or evaluator collaborator is replaced by a
\* neutral default and never propagated to the caller.
CollaboratorFailureNeverPropagates ==
    pc = "raised" => response.raised.error \notin {"APIError", "JSONDecodeError"}

\* C14: the candidate list given to the first evaluation holds the current
\* activity, and nothing else, if and only if a current activity exists and
\* its unweighted relevance is at least min_score; otherwise it is empty.
InitialCandidateIffRelevant ==
    pc = "evaluate" =>
        LET a == frame.current_activity
            relevance == calculate_relevance(dictJson(a.activity),
                                             frame.strategy.keywords)
        IN  IF a # None /\ RatLeq(RelevanceThresholds.min_score, relevance.value)
            THEN frame.results = <<[type |-> "activity", content |-> a.activity,
                                    relevance |-> relevance.value,
                                    source |-> "routine"]>>
            ELSE frame.results = <<>>

\* the current activity scores exactly min_score and is the candidate, in a
\* query made after the weights have moved from their defaults
BoundaryCandidateWitness ==
    /\ pc = "evaluate"
    /\ weights # DefaultWeights
    /\ Len(frame.results) = 1
    /\ frame.results[1].relevance = RelevanceThresholds.min_score

\* the reply is not JSON, or is JSON without one of the three fields
MalformedAnalysis(reply) ==
    \/ reply.kind = "text"
    \/ /\ reply.kind = "json"
       /\ ~ ({"keywords", "focus", "temporal_context"} \subseteq DOMAIN reply.value)

\* C16: when the NLU output is malformed (not parseable, or lacking the
\* keywords, focus or temporal_context field), the analysis step gives the
\* strategy with all categories empty and focus "both" and does not raise.
MalformedAnalysisGivesFallback ==
    (/\ frame # None
     /\ pc \notin {"analyze", "expand"}
     /\ MalformedAnalysis(frame.calls[1].reply)
     /\ \A k \in 1..Len(frame.calls) : frame.calls[k].reply.kind # "error")
        => frame.strategy = FallbackStrategy

\* the reply is the JSON object the collaborator's contract describes (the
\* keyword expansion may also answer with text, which leaves the keywords
\* unexpanded)
WellFormed(c) ==
    /\ c.reply.kind = "json" \/ (c.call = "expand" /\ c.reply.kind = "text")
    /\ c.call = "analyze" =>
           {"keywords", "focus", "temporal_context"} \subseteq DOMAIN c.reply.value
    /\ c.call = "evaluate" =>
           {"score", "sufficient", "focus_recommendation"} \subseteq DOMAIN c.reply.value

\* the graph search ran at most once
BroadenedAtMostOnce == frame # None => frame.searched <= 1

\* a completed query called the evaluator once if the first judgment was
\* sufficient and twice, with one graph search between, if it was not
EvaluatedOnceOrTwice ==
    pc = "done" =>
        LET replies == EvaluatorReplies(frame)
        IN  IF replies[1].reply.value.sufficient
            THEN Len(replies) = 1 /\ frame.searched = 0
            ELSE Len(replies) = 2 /\ frame.searched = 1

\* a query whose collaborators all answered as their contracts describe does
\* not end with an exception
DoneWhenCollaboratorsReturn ==
    pc = "raised" => \E k \in 1..Len(frame.calls) : ~ WellFormed(frame.calls[k])

\* C19: within one process_query the graph search runs at most once; the
\* evaluator is called exactly once when the first judgment is sufficient and
\* exactly twice when it is not, the second judgment leading to the weight
\* adjustment whatever it says; and provided every collaborator call returns,
\* the query reaches Done.
SingleBroadeningPass ==
    /\ BroadenedAtMostOnce
    /\ EvaluatedOnceOrTwice
    /\ DoneWhenCollaboratorsReturn

\* what a completed query leaves: one adjust call, made with the last
\* judgment, and a last history entry holding the query, that judgment's
\* score and the weights as adjusted, which are the weights returned
CompletedQueryReflected ==
    pc = "done" =>
        LET judgment == Last(EvaluatorReplies(frame)).reply.value
            entry == Last(search_history)
            now == [routine |-> weights.routine_weight, story |-> weights.story_weight]
        IN  /\ frame.adjusted = <<judgment>>
            /\ weights = adjustNormalize(adjustStepped(lastAdjust.before,
                                                       judgment.focus_recommendation))
            /\ entry = [query |-> frame.text, effectiveness |-> judgment.score,
                        weights |-> now]
            /\ response.returned.search_performance.weights = now
            /\ response.returned.search_performance.effectiveness = judgment

\* the history lists the queries in the order they were made
HistoryInQueryOrder ==
    \A k, l \in 1..Len(search_history) :
        k < l => search_history[k].query < search_history[l].query

\* a step that completes a query appends one entry to the history, and no
\* other step changes the history
OneEntryPerCompletedQuery ==
    IF pc # "done" /\ pc' = "done"
    THEN /\ Len(search_history') = Len(search_history) + 1
         /\ SubSeq(search_history', 1, Len(search_history)) = search_history
    ELSE search_history' = search_history

\* C20: in every completed process_query adjust is applied exactly once,
\* after the last evaluation and with its judgment, and then exactly one
\* history entry is appended whose weights are the adjusted weights, the ones
\* returned in search_performance; after n completed queries the history has
\* n entries in query order.
ReflectionOncePerQuery ==
    /\ [](CompletedQueryReflected /\ HistoryInQueryOrder)
    /\ [][OneEntryPerCompletedQuery]_vars

\* a second query completed after a broadening pass whose two judgments
\* recommend different things, the adjustment having changed the weights
SecondQueryReflectedWitness ==
    /\ pc = "done"
    /\ Len(search_history) = 2
    /\ Len(EvaluatorReplies(frame)) = 2
    /\ EvaluatorReplies(frame)[1].reply.value.focus_recommendation = "routine"
    /\ EvaluatorReplies(frame)[2].reply.value.focus_recommendation = "memory"
    /\ weights # lastAdjust.before

\* the weighted relevance _search_knowledge_graphs gives node n of G
WeightedRelevance(G, n, kw, w) ==
    RatTimes(calculate_relevance(dictJson(G.node[n]), kw).value,
             IF NodeType(G, n) = "activity" THEN w.routine_weight
             ELSE w.story_weight)

\* the nodes of G the entries of the list stand for
NodesOf(G, entries) ==
    {n \in DOMAIN G.node : \E k \in 1..Len(entries) : entries[k].content = G.node[n]}

NonIncreasing(entries) ==
    \A k \in 1..(Len(entries) - 1) :
        RatLeq(entries[k + 1].relevance, entries[k].relevance)

\* C21: the broadening search returns at most 4 entries, each a graph node
\* whose weighted relevance (raw score times routine_weight for Activity
\* nodes, times story_weight for Memory and Person nodes) is at least
\* min_score, in non-increasing order of weighted relevance, and no node left
\* out has a weighted relevance strictly greater than a returned one.
BroadeningReturnsTopFour ==
    pc = "reevaluate" =>
        LET G == memory_network.G
            kw == frame.strategy.keywords
            found == frame.graph_results
        IN  /\ Len(found) <= 4
            /\ \A k \in 1..Len(found) :
                   /\ RatLeq(RelevanceThresholds.min_score, found[k].relevance)
                   /\ \E n \in DOMAIN G.node :
                          /\ found[k].content = G.node[n]
                          /\ found[k].relevance = WeightedRelevance(G, n, kw, weights)
            /\ NonIncreasing(found)
            /\ \A n \in DOMAIN G.node \ NodesOf(G, found) :
                   \A k \in 1..Len(found) :
                       ~ RatLess(found[k].relevance,
                                 WeightedRelevance(G, n, kw, weights))

\* five nodes qualify and four are returned, the two Activity nodes ahead of
\* a Person node that the graph lists between them
FifthNodeLeftOutWitness ==
    /\ pc = "reevaluate"
    /\ Len(frame.graph_results) = 4
    /\ frame.graph_results[1].type = "activity"
    /\ frame.graph_results[2].type = "activity"
    /\ RatLess(frame.graph_results[3].relevance, frame.graph_results[2].relevance)
    /\ \E n \in DOMAIN memory_network.G.node \ NodesOf(memory_network.G, frame.graph_results) :
           RatLeq(RelevanceThresholds.min_score,
                  WeightedRelevance(memory_network.G, n, frame.strategy.keywords, weights))

\* C23: the candidate list process_query returns is ranked: at most 8
\* entries, in non-increasing order of relevance, whether or not the
\* broadening search took place.
ReturnedListRanked ==
    pc = "done" =>
        /\ Len(response.returned.results) <= 8
        /\ NonIncreasing(response.returned.results)

\* the entry holds node n of G: the node's attributes, or the routine record
\* the node was made from
StandsFor(G, entry, n) ==
    \/ entry.content = G.node[n]
    \/ /\ "type" \notin DOMAIN entry.content
       /\ NodeType(G, n) = "activity"
       /\ [type |-> "activity"] @@ entry.content = G.node[n]

\* C29: no graph node appears more than once in the candidate list
\* process_query returns: the full-graph pass does not add the current
\* activity a second time.
NoNodeReturnedTwice ==
    pc = "done" =>
        \A n \in DOMAIN memory_network.G.node :
            \A j, k \in 1..Len(response.returned.results) :
                /\ StandsFor(memory_network.G, response.returned.results[j], n)
                /\ StandsFor(memory_network.G, response.returned.results[k], n)
                => j = k

\* the number of times edge e occurs among the edges of G
EdgeCount(G, e) == Cardinality({k \in 1..Len(G.edges) : G.edges[k] = e})

EdgesOf(G) == {G.edges[k] : k \in 1..Len(G.edges)}

\* C22: the memory graph is never mutated after construction: after any
\* sequence of process_query calls its node set, every node's attributes and
\* its edge multiset are the ones construction produced, and so are the
\* loaded patient records.
GraphNeverMutated ==
    LET G0 == construct_memory_network(QueryRoutine, QueryStory).G
        G == memory_network.G
    IN  /\ DOMAIN G.node = DOMAIN G0.node
        /\ \A n \in DOMAIN G0.node : G.node[n] = G0.node[n]
        /\ \A e \in EdgesOf(G) \cup EdgesOf(G0) : EdgeCount(G, e) = EdgeCount(G0, e)
        /\ routine_data = QueryRoutine
        /\ story_data = QueryStory
        /\ profile = ProfileData

\* a second query has completed, after a graph search that returned nodes
SearchedTwiceWitness ==
    /\ pc = "done"
    /\ nQueries = 2
    /\ Len(search_history) = 2
    /\ frame.searched = 1
    /\ frame.graph_results # <<>>
    /\ memory_network.G.edges # <<>>

\* the weights as a history entry records them
Recorded(w) == [routine |-> w.routine_weight, story |-> w.story_weight]

\* C26: the weights are session state changed only by the adjust step: the
\* weights the broadening search of a query consults are exactly the weights
\* its predecessor's history entry records (the defaults for the first
\* query); no other step changes them and they are never reset between
\* queries.
BroadeningConsultsRecordedWeights ==
    pc = "reevaluate" =>
        Recorded(weights) = IF search_history = <<>> THEN Recorded(DefaultWeights)
                            ELSE Last(search_history).weights

\* process_query has ended with an exception raised inside a collaborator
\* call: the client's error, the evaluator's undecodable reply, or a field
\* _analyze_dialogue misses in the analysis
CollaboratorRaised ==
    /\ pc = "raised"
    /\ \/ response.raised.error \in {"APIError", "JSONDecodeError"}
       \/ frame.strategy = None

\* C27: if process_query ends with an exception raised by a collaborator call
\* (dialogue analysis, keyword expansion or either sufficiency evaluation),
\* the weights and the search history are exactly what they were before the
\* call: no step of the query up to and including the failing one changes
\* them.
CollaboratorFailureLeavesSession ==
    [][(CollaboratorRaised' \/ pc' \in {"analyze", "expand", "evaluate", "reevaluate"})
           => (weights' = weights /\ search_history' = search_history)]_vars

\* the second evaluation of the second query fails after the graph search,
\* in a session whose first query moved the weights and was recorded
SecondEvaluationFailsWitness ==
    /\ CollaboratorRaised
    /\ frame.searched = 1
    /\ frame.graph_results # <<>>
    /\ nQueries = 2
    /\ Len(search_history) = 1
    /\ weights # DefaultWeights
    /\ Recorded(weights) = Last(search_history).weights

-----------------------------------------------------------------------------
(* OptimizedMemoryAgent.process_query (AdaptiveDialogueAgent.py)           *)

\* x - y, for y <= x
RatSub(x, y) == Rat(x.num * y.den - y.num * x.den, x.den * y.den)

\* an adjust that stores the story weight and leaves the routine weight
adjustKeepingRoutine(w, story_weight) ==
    [w EXCEPT !.story_weight =
                  RatMin(One, IF RatLeq(Rat(0, 1), story_weight) THEN story_weight
                              ELSE Rat(0, 1))]

\* SearchWeights.adjust(story_weight)
SearchWeights_adjust(w, story_weight) ==
    LET max(x, y) == IF RatLeq(x, y) THEN y ELSE x
        story == RatMin(One, max(Rat(0, 1), story_weight))
    IN  [routine_weight |-> RatSub(One, story), story_weight |-> story]

\* the patient of the session, in the layout AdaptiveDialogueAgent.py reads
OptimizedRoutine ==
    <<[activity |-> "Walk", time_start |-> strftime(At(6, 0)),
       time_end |-> strftime(At(7, 0)), location |-> "garden",
       participants |-> <<Tom>>],
      [activity |-> "Lunch", time_start |-> strftime(At(9, 30)),
       time_end |-> strftime(At(10, 0)), location |-> "kitchen",
       participants |-> <<Mary, Tom>>]>>

OptimizedStory ==
    [interviews |->
        <<[memories |->
            <<[id |-> "m1", description |-> <<"W", "a", "l", "k", "s">>,
               people |-> <<"Tom">>],
              [id |-> "m2", description |-> <<"T", "o", "m">>,
               details |-> <<"w", "a", "l", "k">>, people |-> <<"Zoe", "Tom">>]>>]>>]

\* a JSON value where a keyword dict is expected: a dict, or a list
KwDict(d) == [t |-> "dict", d |-> d]

\* the relationship records of relationships.items(), term by term
RECURSIVE allRels(_, _)
allRels(relationships, i) ==
    IF i > Len(relationships) THEN <<>>
    ELSE relationships[i].rels \o allRels(relationships, i + 1)

relatedTerms(relationships) ==
    LET rels == allRels(relationships, 1)
    IN  {rels[k].related_to : k \in 1..Len(rels)}

\* _process_relationships: the relationships grouped by term, in the order
\* the terms first occur; a missing field raises KeyError
RECURSIVE process_relationships(_, _, _)
process_relationships(relationships, i, processed) ==
    IF i > Len(relationships) THEN [raised |-> None, value |-> processed]
    ELSE LET rel == relationships[i]
         IN  IF {"term", "category", "related_to", "relationship_type"} \subseteq DOMAIN rel
             THEN LET entry == [category |-> rel.category, related_to |-> rel.related_to,
                                type |-> rel.relationship_type]
                      at == {k \in 1..Len(processed) : processed[k].term = rel.term}
                  IN  process_relationships(relationships, i + 1,
                          IF at = {}
                          THEN Append(processed, [term |-> rel.term, rels |-> <<entry>>])
                          ELSE [k \in 1..Len(processed) |->
                                   IF k \in at
                                   THEN [processed[k] EXCEPT !.rels = Append(@, entry)]
                                   ELSE processed[k]])
             ELSE [raised |-> [error |-> "KeyError"]]

\* _expand_semantic_context: any failure gives the keywords back unexpanded
expand_semantic_context(kws, reply) ==
    LET unexpanded == [original_keywords |-> kws, expanded_keywords |-> kws,
                       relationships |-> <<>>]
    IN  IF reply.kind # "json" THEN unexpanded
        ELSE IF ~ ({"expanded_keywords", "relationships"} \subseteq DOMAIN reply.value)
        THEN unexpanded
        ELSE LET processed == process_relationships(reply.value.relationships, 1, <<>>)
             IN  IF processed.raised # None THEN unexpanded
                 ELSE [original_keywords |-> kws,
                       expanded_keywords |-> reply.value.expanded_keywords,
                       relationships |-> processed.value]

\* _analyze_dialogue, given the replies to its analysis and expansion prompts
analyze_dialogue(reply, expansion) ==
    LET fallback ==
            [keywords |-> KwDict([people |-> <<>>, activities |-> <<>>,
                                  time_refs |-> <<>>, locations |-> <<>>]),
             semantic_relationships |-> <<>>, focus |-> "both",
             temporal_context |-> "both"]
    IN
    IF reply.kind # "json" THEN fallback
    ELSE IF ~ ({"keywords", "focus", "temporal_context"} \subseteq DOMAIN reply.value)
    THEN fallback
    ELSE LET semantic_context == expand_semantic_context(reply.value.keywords, expansion)
         IN  [keywords |-> semantic_context.expanded_keywords,
              semantic_relationships |-> semantic_context.relationships,
              focus |-> reply.value.focus,
              temporal_context |-> reply.value.temporal_context]

\* _is_person_relevant, for a keyword dict
is_person_relevant(person_name, kws, relationships) ==
    \/ LET people == IF "people" \in DOMAIN kws.d THEN kws.d.people ELSE <<>>
       IN  \E k \in 1..Len(people) : people[k] = Chars(person_name)
    \/ Chars(person_name) \in relatedTerms(relationships)

\* "{time_start} - {time_end}"
timeSpan(activity) == activity.time_start \o <<" ", "-", " ">> \o activity.time_end

\* _search_current_activity
search_current_activity(activity, kws, relationships) ==
    IF "location" \notin DOMAIN activity THEN [raised |-> [error |-> "KeyError"]]
    ELSE IF activity.participants # <<>> /\ kws.t # "dict"
    THEN [raised |-> [error |-> "AttributeError"]]
    ELSE [raised |-> None,
          value |-> [name |-> activity.activity, time |-> timeSpan(activity),
                     location |-> activity.location,
                     participants |->
                         SelectSeq(activity.participants,
                                   LAMBDA q : is_person_relevant(q.name, kws,
                                                                 relationships))]]

\* _get_person_activities: the activities of the routine the person takes
\* part in, or None
get_person_activities(routine, person) ==
    LET mine == SelectSeq(routine,
                          LAMBDA a : \E k \in 1..Len(a.participants) :
                                         a.participants[k].name = person)
    IN  IF \E k \in 1..Len(mine) : "location" \notin DOMAIN mine[k]
        THEN [raised |-> [error |-> "KeyError"]]
        ELSE [raised |-> None,
              value |-> IF mine = <<>> THEN None
                        ELSE [person |-> person,
                              activities |->
                                  [k \in 1..Len(mine) |->
                                      [name |-> mine[k].activity,
                                       time |-> timeSpan(mine[k]),
                                       location |-> mine[k].location]]]]

\* the loop over the participants of the current activity
RECURSIVE peopleInfo(_, _, _, _, _, _)
peopleInfo(routine, participants, kws, relationships, i, acc) ==
    IF i > Len(participants) THEN [raised |-> None, value |-> acc]
    ELSE IF ~ is_person_relevant(participants[i].name, kws, relationships)
    THEN peopleInfo(routine, participants, kws, relationships, i + 1, acc)
    ELSE LET person_activities == get_person_activities(routine, participants[i].name)
         IN  IF person_activities.raised # None THEN person_activities
             ELSE peopleInfo(routine, participants, kws, relationships, i + 1,
                             IF person_activities.value = None THEN acc
                             ELSE Append(acc, person_activities.value))

\* f"{memory['description']} {memory.get('details', '')}".lower()
memoryText(memory) ==
    lower(memory.description \o <<" ">>
              \o (IF "details" \in DOMAIN memory THEN memory.details ELSE <<>>))

RECURSIVE storyMemories(_, _)
storyMemories(interviews, i) ==
    IF i > Len(interviews) THEN <<>>
    ELSE interviews[i].memories \o storyMemories(interviews, i + 1)

\* MemoryGraphManager.search_memories
search_memories(story, terms) ==
    IF "interviews" \notin DOMAIN story THEN [raised |-> [error |-> "KeyError"]]
    ELSE LET all == storyMemories(story.interviews, 1)
         IN  IF \E k \in 1..Len(all) : "description" \notin DOMAIN all[k]
             THEN [raised |-> [error |-> "KeyError"]]
             ELSE LET hits == SelectSeq(all, LAMBDA m :
                                  \E kw \in terms : Contains(memoryText(m), lower(kw)))
                  IN  [raised |-> None,
                       value |-> [k \in 1..Len(hits) |->
                                     [year |-> IF "year" \in DOMAIN hits[k]
                                               THEN hits[k].year ELSE None,
                                      description |-> hits[k].description,
                                      details |-> IF "details" \in DOMAIN hits[k]
                                                  THEN hits[k].details ELSE <<>>,
                                      people |-> IF "people" \in DOMAIN hits[k]
                                                 THEN hits[k].people ELSE <<>>]]]

\* _rank_memories: one point per keyword match, half a point per related
\* term, sorted by descending score, equal scores in the order found
rank_memories(memories, kws, relationships) ==
    LET hitsIn(memory, c) ==
            Cardinality({k \in 1..Len(kws.d[c]) :
                            Contains(memoryText(memory), lower(kws.d[c][k]))})
        RECURSIVE directMatches(_, _)
        directMatches(memory, cs) ==
            IF cs = {} THEN 0
            ELSE LET c == CHOOSE x \in cs : TRUE
                 IN  hitsIn(memory, c) + directMatches(memory, cs \ {c})
        rels == allRels(relationships, 1)
        relatedMatches(memory) ==
            Cardinality({k \in 1..Len(rels) :
                            Contains(memoryText(memory), lower(rels[k].related_to))})
        scored == [k \in 1..Len(memories) |->
                      [memory |-> memories[k],
                       relevance |-> Rat(2 * directMatches(memories[k], DOMAIN kws.d)
                                             + relatedMatches(memories[k]),
                                         2)]]
        ranked == sortedByRelevance(scored, Len(scored))
    IN  [k \in 1..Len(ranked) |->
            ranked[k].memory @@ [relevance_score |-> ranked[k].relevance]]

\* _execute_search(context, strategy)
execute_search(routine, story, current_activity, strategy) ==
    LET kws == strategy.keywords
        relationships == strategy.semantic_relationships
        routineHalf == strategy.focus \in {"routine", "both"} /\ current_activity # None
        activity_info ==
            IF routineHalf
            THEN search_current_activity(current_activity.activity, kws, relationships)
            ELSE [raised |-> None, value |-> None]
        people_info ==
            IF routineHalf
            THEN peopleInfo(routine, current_activity.activity.participants, kws,
                            relationships, 1, <<>>)
            ELSE [raised |-> None, value |-> <<>>]
        memories ==
            search_memories(story,
                UNION {{kws.d[c][k] : k \in 1..Len(kws.d[c])} : c \in DOMAIN kws.d}
                    \cup relatedTerms(relationships))
        related_memories ==
            IF strategy.focus \notin {"memory", "both"} THEN [raised |-> None, value |-> <<>>]
            ELSE IF kws.t # "dict" THEN [raised |-> [error |-> "AttributeError"]]
            ELSE IF memories.raised # None THEN memories
            ELSE [raised |-> None,
                  value |-> IF memories.value = <<>> THEN <<>>
                            ELSE rank_memories(memories.value, kws, relationships)]
    IN  IF activity_info.raised # None THEN activity_info
        ELSE IF people_info.raised # None THEN people_info
        ELSE IF related_memories.raised # None THEN related_memories
        ELSE [raised |-> None,
              value |-> [activity_info |-> activity_info.value,
                         people_info |-> people_info.value,
                         related_memories |-> related_memories.value]]

\* _evaluate_results, given the reply to its prompt
evaluate_results(reply) ==
    IF reply.kind = "json" THEN reply.value
    ELSE [score |-> Rat(1, 2), coverage |-> <<>>, gaps |-> <<>>,
          focus_recommendation |-> "balanced"]

\* replies of the language model to the three prompts
OptimizedNluReplies ==
    LET KwTom == KwDict([people |-> <<Chars("Tom")>>, activities |-> <<>>])
    IN  {ApiError}
          \cup {JsonReply([keywords |-> KwTom, focus |-> f, temporal_context |-> "current"]) :
                   f \in {"routine", "memory"}}
          \cup {JsonReply([keywords |-> [t |-> "list"], focus |-> "both",
                           temporal_context |-> "past"]),
                JsonReply([keywords |-> KwTom, temporal_context |-> "current"])}

OptimizedExpansions ==
    LET KwWalk == KwDict([people |-> <<Chars("Mary")>>, activities |-> <<Chars("Walk")>>])
        SonIsTom == [term |-> "son", category |-> "people", related_to |-> Chars("Tom"),
                     relationship_type |-> "family"]
    IN  {ApiError,
         JsonReply([expanded_keywords |-> KwWalk, relationships |-> <<SonIsTom>>]),
         JsonReply([expanded_keywords |-> KwWalk, relationships |-> <<[term |-> "son"]>>])}

OptimizedEvalReplies ==
    {ApiError, NotJson}
      \cup {JsonReply([score |-> x, coverage |-> <<>>, gaps |-> <<>>,
                       focus_recommendation |-> "balanced"]) :
               x \in {Rat(3, 10), Rat(69, 100), Rat(7, 10), Rat(9, 10), [t |-> "str"]}}
      \cup {JsonReply([coverage |-> <<>>, gaps |-> <<>>]),
            JsonReply([score |-> Rat(3, 10), focus_recommendation |-> "memory"])}

\* bound on the queries of a session
MaxOptimizedQueries == 6

\* process_query up to the request of _analyze_dialogue
OptimizedProcessQuery ==
    /\ pc \in {"idle", "done", "raised"}
    /\ nQueries < MaxOptimizedQueries
    /\ \E current_time \in QueryClock :
          frame' = [text |-> nQueries + 1,
                    current_time |-> current_time,
                    current_activity |-> get_current_activity(routine_data, current_time),
                    strategy |-> None, results |-> None, effectiveness |-> None]
    /\ nQueries' = nQueries + 1
    /\ pc' = "analyze"
    /\ response' = None
    /\ UNCHANGED weights

\* the analysis and expansion calls return: _analyze_dialogue gives a
\* strategy whatever they answer, and the first search runs
OptimizedAnalyzeReturns ==
    /\ pc = "analyze"
    /\ \E reply \in OptimizedNluReplies, expansion \in OptimizedExpansions :
          LET strategy == analyze_dialogue(reply, expansion)
              results == execute_search(routine_data, story_data,
                                        frame.current_activity, strategy)
          IN  IF results.raised # None
              THEN /\ frame' = [frame EXCEPT !.strategy = strategy]
                   /\ Raise(results.raised.error)
              ELSE /\ frame' = [frame EXCEPT !.strategy = strategy,
                                             !.results = results.value]
                   /\ pc' = "evaluate"
                   /\ UNCHANGED response
    /\ UNCHANGED <<weights, nQueries>>

\* _format_response
format_response(f, results, effectiveness, w) ==
    IF ~ ({"score", "coverage", "gaps"} \subseteq DOMAIN effectiveness)
    THEN [raised |-> [error |-> "KeyError"]]
    ELSE [raised |-> None,
          returned |->
              [query_analysis |->
                   [dialogue |-> f.text, time |-> strftime(f.current_time),
                    strategy |-> f.strategy],
               search_results |->
                   [current_activity |-> results.activity_info,
                    people_info |-> results.people_info,
                    memories |-> results.related_memories],
               search_performance |->
                   [effectiveness_score |-> effectiveness.score,
                    coverage |-> effectiveness.coverage,
                    gaps |-> effectiveness.gaps,
                    weights |-> [routine |-> w.routine_weight,
                                 memory |-> w.story_weight]]]]

\* the evaluation returns: a score below the threshold moves the weights
\* and repeats the search; then the response is formatted
OptimizedEvaluateReturns ==
    /\ pc = "evaluate"
    /\ \E reply \in OptimizedEvalReplies :
          LET effectiveness == evaluate_results(reply)
              f == [frame EXCEPT !.effectiveness = effectiveness]
          IN  IF "score" \notin DOMAIN effectiveness
              THEN frame' = f /\ Raise("KeyError") /\ UNCHANGED weights
              ELSE IF "num" \notin DOMAIN effectiveness.score
              THEN frame' = f /\ Raise("TypeError") /\ UNCHANGED weights
              ELSE
                  LET low == RatLess(effectiveness.score, Rat(7, 10))
                      w == IF low
                           THEN SearchWeights_adjust(weights,
                                    RatAdd(weights.story_weight, Rat(1, 5)))
                           ELSE weights
                      again == IF low
                               THEN execute_search(routine_data, story_data,
                                                   frame.current_activity, frame.strategy)
                               ELSE [raised |-> None, value |-> frame.results]
                      formatted == format_response(f, again.value, effectiveness, w)
                  IN  /\ weights' = w
                      /\ IF again.raised # None
                         THEN frame' = f /\ Raise(again.raised.error)
                         ELSE /\ frame' = [f EXCEPT !.results = again.value]
                              /\ IF formatted.raised # None
                                 THEN Raise(formatted.raised.error)
                                 ELSE /\ response' = [returned |-> formatted.returned]
                                      /\ pc' = "done"
    /\ UNCHANGED nQueries

\* the agent as constructed for the patient: graph built, default weights,
\* no query made
InitOptimized ==
    /\ files = None
    /\ profile = ProfileData
    /\ agent = [raised |-> None, class |-> "OptimizedMemoryAgent"]
    /\ routine_data = OptimizedRoutine
    /\ story_data = OptimizedStory
    /\ memory_network = [builder |-> "construct_memory_networks"]
                            @@ construct_memory_networks(OptimizedRoutine, OptimizedStory)
    /\ weights = OptimizedDefaultWeights
    /\ lastAdjust = None
    /\ nAdjust = 0
    /\ located = None
    /\ content = <<>>
    /\ keywords = <<>>
    /\ score = None
    /\ pc = "idle"
    /\ frame = None
    /\ search_history = <<>>
    /\ response = None
    /\ nQueries = 0

NextOptimized ==
    \/ OptimizedProcessQuery /\ UNCHANGED <<lastAdjust, nAdjust, recordVars, memory_network, located,
                                            scorerVars, loadVars, search_history>>
    \/ OptimizedAnalyzeReturns /\ UNCHANGED <<lastAdjust, nAdjust, recordVars, memory_network, located,
                                            scorerVars, loadVars, search_history>>
    \/ OptimizedEvaluateReturns /\ UNCHANGED <<lastAdjust, nAdjust, recordVars, memory_network, located,
                                            scorerVars, loadVars, search_history>>

SpecOptimized == InitOptimized /\ [][NextOptimized]_vars

\* the evaluation of the running query returns a score below the threshold
LowScoreJudged ==
    /\ pc = "evaluate"
    /\ pc' # "evaluate"
    /\ "score" \in DOMAIN frame'.effectiveness
    /\ "num" \in DOMAIN frame'.effectiveness.score
    /\ RatLess(frame'.effectiveness.score, Rat(7, 10))

WeightsWellFormed ==
    /\ RatLeq(Rat(0, 1), weights.story_weight)
    /\ RatLeq(weights.story_weight, One)
    /\ weights.routine_weight = RatSub(One, weights.story_weight)

StoryWeightStepsUp ==
    /\ RatLeq(weights.story_weight, weights'.story_weight)
    /\ weights'.story_weight =
           IF LowScoreJudged
           THEN RatMin(One, RatAdd(weights.story_weight, Rat(2, 10)))
           ELSE weights.story_weight

\* C28: in OptimizedMemoryAgent, after any sequence of process_query calls
\* story_weight is within [0, 1], routine_weight = 1 - story_weight, and
\* story_weight never decreases: it grows by 0.2 on each query whose
\* effectiveness score is below 0.7, until it saturates at 1.0 with
\* routine_weight 0, and is unchanged on every other query.
StoryWeightOnlyGrows == []WeightsWellFormed /\ [][StoryWeightStepsUp]_vars

\* a query scoring below 0.7 has completed with the weights saturated before
\* and after it
SaturatedWitness ==
    /\ pc = "done"
    /\ nQueries = 6
    /\ weights.story_weight = One
    /\ weights.routine_weight = Rat(0, 1)
    /\ RatLess(frame.effectiveness.score, Rat(7, 10))


====
